---- MODULE Spec2Model ----
(***************************************************************************)
(* The RCON protocol client of fle.factorio_server (rcon.py): one client   *)
(* object, the tasks that call connect / aclose / send_command on it, the  *)
(* background _consume_reader task of every connection it opened, and the  *)
(* console server at the other end of each connection.                     *)
(*                                                                         *)
(* Scheduling is asyncio's: a task runs without interruption between two   *)
(* awaits, so every action below is one such uninterrupted stretch.        *)
(*                                                                         *)
(* Seven more parts of the package have a specification of their own:      *)
(* the server supervisor (factorio_server.py: create_server and aclose,    *)
(* ServerSpec), save_world of the same file (SaveSpec), the tick           *)
(* accounting of World.step (world.py, WorldSpec), World.call_mod and      *)
(* create_entities over the client (ModSpec), the packet framing of        *)
(* _write_packet and _read_packet (FrameSpec), the server an Evaluator     *)
(* holds (evaluator.py, EvalSpec) and the entity codec of the belt         *)
(* placement problem (encoding.py, CodecSpec).  FairSpec is the client     *)
(* with one sender under the fairness the event loop gives its timers      *)
(* and ready tasks.                                                        *)
(***************************************************************************)
EXTENDS Integers, Sequences, FiniteSets, TLC

\* ------------------------------------------------------------ constants
MAX_32_BIT_SIGNED_INT == 2147483647
SERVERDATA_AUTH == 3
SERVERDATA_AUTH_RESPONSE == 2
SERVERDATA_EXECCOMMAND == 2
SERVERDATA_RESPONSE_VALUE == 0
AUTH_FAILURE_ID == -1

\* --------------------------------------------------------------- bounds
NumSenders == 2      \* tasks that call send_command concurrently
MaxConn == 2         \* connections opened over the client's life
MaxGen == 2          \* pending maps created by aclose after the first one
MaxSends == 3        \* send_command calls modelled one by one
MaxBursts == 1       \* blocks of answered sends taken in one step

\* a block of sequential send_command calls, each answered before the next
BurstLen == MAX_32_BIT_SIGNED_INT - 1

AuthSlot == 0
Senders == 1..NumSenders
Slots == {AuthSlot} \cup Senders
Conns == 1..MaxConn
Gens == 0..MaxGen

VARIABLES
    next_id,      \* RCONClient._next_id
    writer,       \* RCONClient._writer: 0 is None, k > 0 the stream of connection k
    reader,       \* RCONClient._reader: 0 is None, k > 0 the stream of connection k
    cur,          \* which dict RCONClient._expected_responses_by_request_id is
    maps,         \* every dict ever created: maps[g][pkt_id] = the _ExpectedResponse
    conn,         \* per connection: "none", "open", "down" (closed by the client)
    rtask,        \* per connection: the _consume_reader task, [st, map]
    srv,          \* per connection: requests the server received and has to answer
    pwOk,         \* whether the server accepts RCONClient.password
    ctl,          \* where the task calling connect()/aclose() stands
    pc,           \* per slot: where its _send_packet stands
    rid,          \* per slot: pkt.pkt_id of its request
    rmap,         \* per slot: the dict inner_send took its local reference to
    fut,          \* per slot: _ExpectedResponse.response_future
    mustCancel,   \* per slot: cancel() was called while the future was already done
    timer,        \* slots whose wait_for deadline is armed
    last,         \* the call that ended in the step just taken, if one did
    authed,       \* connections on which the server accepted the password
    nconn, nsends, nbursts

vars == << next_id, writer, reader, cur, maps, conn, rtask, srv, pwOk, ctl, pc,
           rid, rmap, fut, mustCancel, timer, last, authed, nconn, nsends, nbursts >>

\* The process supervisor of factorio_server.py (create_server, FactorioServer)
VARIABLES
    dirs,           \* the working directories that exist on disk
    logs,           \* those of them that hold a factorio-current.log
    tmpdir,         \* tmpdir of the running _try_create_server, then of the handle
    attempt,        \* how many times create_server called _try_create_server
    lpc,            \* where create_server stands
    port, rcon_port,\* what the port allocator returned to this attempt, 0 before
    peer,           \* who listens on rcon_port: "own" child or an "other" server
    proc,           \* per attempt: the child process
    perr,           \* the exception the handler of line 235 will re-raise
    last_exception, \* _open_rcon's last_exception
    tries,          \* connect calls _open_rcon made in this attempt
    tried,          \* per attempt: what _try_create_server raised, "none" before
    outcome,        \* what create_server returned or raised, "none" before
    client,         \* per attempt: the RCONClient _open_rcon created
    pytest,         \* whether PYTEST_CURRENT_TEST is in os.environ
    delete_tmpdir,  \* FactorioServer.delete_tmpdir
    hpc,            \* where FactorioServer.aclose stands
    closed          \* what FactorioServer.aclose returned or raised, "none" before

server_vars == << dirs, logs, tmpdir, attempt, lpc, port, rcon_port, peer, proc, perr,
                  last_exception, tries, tried, outcome, client, pytest,
                  delete_tmpdir, hpc, closed >>

\* FactorioServer.save_world, the engine's log file and its saves folder
VARIABLES
    log,        \* factorio-current.log: the lines written so far, the last maybe partly
    spc,        \* per save_world call: where it stands
    start,      \* per call: the position logfile.seek(0, os.SEEK_END) recorded
    pos,        \* per call: lines of the log behind the file position
    mid,        \* per call: the file position is inside a line (line pos)
    issuedAt,   \* per call: lines in the log when its save command was written
    engine,     \* per call: what the engine did with its save command
    artifact,   \* per call: saves/<temp_name> exists
    dest,       \* per call: target_file holds the artifact
    result      \* per call: what save_world returned or raised, "none" before

save_vars == << log, spc, start, pos, mid, issuedAt, engine, artifact, dest, result >>

\* The World of world.py and the engine's clock
VARIABLES
    _initial_tick,      \* World._initial_tick
    _cur_tick,          \* World._cur_tick
    _cur_target_tick,   \* World._cur_target_tick
    etick,              \* game.tick in the engine
    todo,               \* ticks the engine still has to run for the steps it accepted
    wpc,                \* where the task calling step() stands
    num_ticks,          \* the argument of the step() under way
    total,              \* the sum of the arguments of the step() calls that returned
    failed,             \* whether a step() call raised
    wlast,              \* how the last step() call ended, "none" before
    nsteps, ndrift

world_vars == << _initial_tick, _cur_tick, _cur_target_tick, etick, todo, wpc,
                 num_ticks, total, failed, wlast, nsteps, ndrift >>

\* World.call_mod and World.create_entities of world.py
VARIABLES
    mpc,            \* per slot: where the call_mod task of that slot stands
    return_type,    \* per slot: the return_type argument of its call_mod
    mout,           \* per slot: what call_mod returned or raised
    mlast,          \* the last a call_mod did: it began with this serialized_request,
                    \* or it ended on this reply under this return_type
    entities,       \* the argument of the create_entities under way
    gpc,            \* where create_entities stands
    gout,           \* what create_entities returned or raised
    ncalls

mod_vars == << mpc, return_type, mout, mlast, entities, gpc, gout, ncalls >>

\* _write_packet and _read_packet of rcon.py on one stream
VARIABLES
    wire,       \* bytes the writer wrote that have not reached the reader's buffer
    buf,        \* the StreamReader's buffer
    hdr,        \* what _read_packet unpacked from the header it read, NoHeader before
    written,    \* the packets given to _write_packet, in order
    received         \* the packets _read_packet returned, in order

frame_vars == << wire, buf, hdr, written, received >>

\* The Evaluator of evaluator.py and the server processes it launched
VARIABLES
    deterministic,  \* Evaluator.deterministic
    server,         \* Evaluator.server: 0 is None, p > 0 the handle of process p
    procs,          \* per process: "none" before it is spawned, "running",
                    \* "signalled" (killed, not yet waited for), "dead"
    epc,            \* where the task using the Evaluator stands
    launches,       \* _try_create_server calls of the create_server under way
    prev,           \* Evaluator.server when the create_world under way began
    elast,          \* how the last create_world or aclose ended, "none" before
    nworlds,
    delete_of,      \* per process: delete_tmpdir of its FactorioServer handle
    tmpdirs         \* the processes whose working directory exists

eval_vars == << deterministic, server, procs, epc, launches, prev, elast, nworlds,
               delete_of, tmpdirs >>

\* encode_entity and decode_entity of encoding.py, as they were last called
VARIABLES
    num,            \* the argument of the last decode_entity, -1 - MaxNum before
    decoded,        \* what that decode_entity returned or raised
    name_dir,       \* the argument of the last encode_entity
    encoded         \* what that encode_entity returned or raised

codec_vars == << num, decoded, name_dir, encoded >>

\* everything that is not the protocol client's
beyond_client == << server_vars, save_vars, world_vars, mod_vars, frame_vars, eval_vars,
                   codec_vars >>

\* ---------------------------------------------------------------- values
NoPkt == [pkt_id |-> -2, type |-> -2, body |-> -2]
_Packet(i, t, b) == [pkt_id |-> i, type |-> t, body |-> b]

FutPending == [st |-> "pending", pkt |-> NoPkt]
FutCancelled == [st |-> "cancelled", pkt |-> NoPkt]
FutResult(p) == [st |-> "result", pkt |-> p]
\* a reader that answers the auth failure with set_result
FutExceptionAsResult(p) == FutResult(p)
FutException(p) == [st |-> "RCONAuthFailure", pkt |-> p]

\* how a call ended
Raised(e) == [kind |-> e, pkt |-> NoPkt]
Returned(p) == [kind |-> "result", pkt |-> p]
\* the call of slot s for request i, registered in dict g, ended with o
Call(s, i, g, o) == [slot |-> s, rid |-> i, map |-> g, kind |-> o.kind, pkt |-> o.pkt]
NoCall == Call(0, 0, 0, Raised("none"))

EmptyMap == << >>

\* the dict without key i
DictDel(m, i) == [j \in (DOMAIN m) \ {i} |-> m[j]]
\* the dict with m[i] = v (an existing entry is overwritten)
DictSet(m, i, v) == [j \in (DOMAIN m) \cup {i} |-> IF j = i THEN v ELSE m[j]]

_ExpectedResponse(s, t) == [slot |-> s, is_auth |-> (t = SERVERDATA_AUTH)]

\* ---------------------------------------------------- process supervisor
LaunchAttempts == 2      \* for _ in range(2)
MaxDirs == 2             \* names mkdtemp can return
MaxPorts == 2            \* ports the allocator can return
MaxTries == 2            \* connect calls of one _open_rcon

Dirs == 1..MaxDirs
Ports == 1..MaxPorts
Attempts == 1..LaunchAttempts

\* nothing was launched yet
ServerUnused ==
    /\ dirs = {}
    /\ logs = {}
    /\ tmpdir = 0
    /\ attempt = 0
    /\ lpc = "idle"
    /\ port = 0
    /\ rcon_port = 0
    /\ peer = "none"
    /\ proc = [a \in Attempts |-> "none"]
    /\ perr = "none"
    /\ last_exception = "none"
    /\ tries = 0
    /\ tried = [a \in Attempts |-> "none"]
    /\ outcome = "none"
    /\ client = [a \in Attempts |-> "none"]
    /\ delete_tmpdir = TRUE
    /\ hpc = "none"
    /\ closed = "none"

MaxSaves == 2            \* save_world calls on the handle
MaxLog == 3              \* lines the engine writes to its log

Saves == 1..MaxSaves

\* no save_world call was made and the log is empty
SaveUnused ==
    /\ log = << >>
    /\ spc = [s \in Saves |-> "idle"]
    /\ start = [s \in Saves |-> 0]
    /\ pos = [s \in Saves |-> 0]
    /\ mid = [s \in Saves |-> FALSE]
    /\ issuedAt = [s \in Saves |-> 0]
    /\ engine = [s \in Saves |-> "none"]
    /\ artifact = [s \in Saves |-> FALSE]
    /\ dest = [s \in Saves |-> FALSE]
    /\ result = [s \in Saves |-> "none"]

MaxSteps == 3            \* step() calls on the World
MaxDrift == 1            \* ticks the engine runs that no step asked for
MaxInitialTick == 2      \* the tick of the loaded save

\* num_ticks: int, not validated by step()
StepSizes == -1..2
InitialTicks == 0..MaxInitialTick

\* World.__attrs_post_init__ on initial_tick = t, the engine's tick
WorldCreated(t) ==
    /\ _initial_tick = t
    /\ _cur_tick = t
    /\ _cur_target_tick = t
    /\ etick = t
    /\ todo = 0
    /\ wpc = "idle"
    /\ num_ticks = 0
    /\ total = 0
    /\ failed = FALSE
    /\ wlast = "none"
    /\ nsteps = 0
    /\ ndrift = 0

NoHeader == [pkt_size |-> 0, pkt_id |-> 0, pkt_type |-> 0]

\* a stream nothing was written to
StreamUnused ==
    /\ wire = << >>
    /\ buf = << >>
    /\ hdr = NoHeader
    /\ written = << >>
    /\ received = << >>

MaxServers == 3      \* server processes spawned for one Evaluator
MaxWorlds == 3       \* create_world calls on one Evaluator
Pids == 1..MaxServers

\* an Evaluator as constructed: server = None, nothing launched
EvaluatorCreated(d) ==
    /\ deterministic = d
    /\ server = 0
    /\ procs = [p \in Pids |-> "none"]
    /\ epc = "idle"
    /\ launches = 0
    /\ prev = 0
    /\ elast = "none"
    /\ nworlds = 0
    /\ delete_of = [p \in Pids |-> TRUE]
    /\ tmpdirs = {}

EvaluatorUnused == EvaluatorCreated(FALSE)

MaxNum == 20         \* decode_entity is called on -MaxNum .. MaxNum

\* @define class EntityNameAndDirection
EntityNameAndDirection(n, d) == [name |-> n, direction |-> d]

\* what a call returned (kind "value", or "None") or the exception it raised
Coded(k, e, n) == [kind |-> k, e |-> e, n |-> n]
NotCoded == Coded("none", EntityNameAndDirection("", ""), 0)

\* neither function was called yet
CodecUnused ==
    /\ num = -1 - MaxNum
    /\ decoded = NotCoded
    /\ name_dir = EntityNameAndDirection("", "")
    /\ encoded = NotCoded

MaxCalls == 2        \* call_mod calls begun, directly or by create_entities

\* how a call_mod or a create_entities ended: a value or an exception
Outcome(k, v, m) == [kind |-> k, value |-> v, message |-> m]
NoOutcome == Outcome("none", 0, "")
\* the {result, error} document of a reply: the result is null, a value the
\* declared type structures, or a value it does not; the error is null or not
Envelope(r, e) == [result |-> r, error |-> e]
NoEnvelope == Envelope("none", FALSE)
\* call_mod of slot s began with serialized_request doc / ended on reply env
Began(s, doc) == [kind |-> "began", slot |-> s, doc |-> doc, rt |-> "None", env |-> NoEnvelope]
Ended(s, rt, env) == [kind |-> "ended", slot |-> s, doc |-> << >>, rt |-> rt, env |-> env]
NoEvent == [kind |-> "none", slot |-> 0, doc |-> << >>, rt |-> "None", env |-> NoEnvelope]

\* no call_mod and no create_entities was made
ModUnused ==
    /\ mpc = [s \in Senders |-> "idle"]
    /\ return_type = [s \in Senders |-> "None"]
    /\ mout = [s \in Senders |-> NoOutcome]
    /\ mlast = NoEvent
    /\ entities = << >>
    /\ gpc = "idle"
    /\ gout = [kind |-> "none", list |-> << >>]
    /\ ncalls = 0

\* a client nobody has used yet, against a server that accepts its password
ClientUnused ==
    /\ next_id = 0
    /\ writer = 0
    /\ reader = 0
    /\ cur = 0
    /\ maps = [g \in Gens |-> EmptyMap]
    /\ conn = [k \in Conns |-> "none"]
    /\ rtask = [k \in Conns |-> [st |-> "none", map |-> 0]]
    /\ srv = [k \in Conns |-> {}]
    /\ pwOk = TRUE
    /\ ctl = "idle"
    /\ pc = [s \in Slots |-> "idle"]
    /\ rid = [s \in Slots |-> 0]
    /\ rmap = [s \in Slots |-> 0]
    /\ fut = [s \in Slots |-> FutPending]
    /\ mustCancel = [s \in Slots |-> FALSE]
    /\ timer = {}
    /\ last = NoCall
    /\ authed = {}
    /\ nconn = 0
    /\ nsends = 0
    /\ nbursts = 0

\* ------------------------------------------------------------------ Init
Init ==
    /\ next_id = 0
    /\ writer = 0
    /\ reader = 0
    /\ cur = 0
    /\ maps = [g \in Gens |-> EmptyMap]
    /\ conn = [k \in Conns |-> "none"]
    /\ rtask = [k \in Conns |-> [st |-> "none", map |-> 0]]
    /\ srv = [k \in Conns |-> {}]
    /\ pwOk \in BOOLEAN
    /\ ctl = "idle"
    /\ pc = [s \in Slots |-> "idle"]
    /\ rid = [s \in Slots |-> 0]
    /\ rmap = [s \in Slots |-> 0]
    /\ fut = [s \in Slots |-> FutPending]
    /\ mustCancel = [s \in Slots |-> FALSE]
    /\ timer = {}
    /\ last = NoCall
    /\ authed = {}
    /\ nconn = 0
    /\ nsends = 0
    /\ nbursts = 0
    /\ ServerUnused /\ pytest = FALSE
    /\ SaveUnused
    /\ ModUnused
    /\ EvaluatorUnused
    /\ CodecUnused
    /\ StreamUnused
    /\ WorldCreated(0)

\* ------------------------------------------------- RCONClient._get_next_id
\* a counter that goes on to the 32-bit value after MAX, which is negative
IdAfterSigned(n) == IF n > MAX_32_BIT_SIGNED_INT - 1 THEN AUTH_FAILURE_ID ELSE n + 1

\* the value of _next_id after one call on _next_id = n
\* (n + 1 > MAX is written n > MAX - 1: TLC's integers are 32 bits wide)
IdAfter(n) == IF n > MAX_32_BIT_SIGNED_INT - 1 THEN 0 ELSE n + 1

\* the value of _next_id after k calls on _next_id = n, 0 <= k <= MAX
IdAfterMany(n, k) ==
    IF n <= MAX_32_BIT_SIGNED_INT - k THEN n + k
    ELSE n - (MAX_32_BIT_SIGNED_INT - k) - 1

\* the ids the k calls after _next_id = n return
IdsOfMany(n, k, i) ==
    IF n <= MAX_32_BIT_SIGNED_INT - k THEN n <= i /\ i < n + k
    ELSE i >= n \/ i < n - (MAX_32_BIT_SIGNED_INT - k) - 1

\* --------------------------------------------- RCONClient._send_packet
\* inner_send up to its first await: the request is registered in the dict
\* the client holds now, under the id _get_next_id returned
Registered(s, t) ==
    [maps EXCEPT ![cur] = DictSet(maps[cur], next_id, _ExpectedResponse(s, t))]

\* an inner_send without its finally clause
NotDeregistered(ms, g, i) == ms

\* the finally clause of inner_send, on the dicts ms: del dict[pkt.pkt_id]
Deregistered(ms, g, i) == [ms EXCEPT ![g] = DictDel(ms[g], i)]

\* what the server has to answer for a request it received
Work(i, t, b) == [pkt_id |-> i, type |-> t, body |-> b, stage |-> 0]

\* a _send_packet that awaits inner_send() without a deadline
ArmedNever(tm, s) == tm

\* asyncio.wait_for(inner_send(), timeout=timeout_seconds) sets its timer
Armed(tm, s) == tm \cup {s}

\* the packet is written and inner_send awaits response_future under wait_for
Awaiting(s, t) ==
    /\ rid' = [rid EXCEPT ![s] = next_id]
    /\ rmap' = [rmap EXCEPT ![s] = cur]
    /\ next_id' = IdAfter(next_id)
    /\ maps' = Registered(s, t)
    /\ pc' = [pc EXCEPT ![s] = "await"]
    /\ timer' = Armed(timer, s)
    /\ last' = NoCall
    /\ UNCHANGED << fut, mustCancel >>

\* inner_send raised e before it awaited anything: finally, then the exception
Failed(s, t, e) ==
    /\ next_id' = IdAfter(next_id)
    /\ maps' = Deregistered(Registered(s, t), cur, next_id)
    /\ last' = Call(s, next_id, cur, Raised(e))
    /\ UNCHANGED << pc, rid, rmap, fut, mustCancel, timer >>

CanSend(s) == pc[s] = "idle" /\ nsends < MaxSends

\* send_command on a connected client: the packet reaches the server
SendCommand(s) ==
    /\ CanSend(s)
    /\ writer # 0 /\ conn[writer] = "open"
    /\ Awaiting(s, SERVERDATA_EXECCOMMAND)
    /\ srv' = [srv EXCEPT ![writer] = @ \cup {Work(next_id, SERVERDATA_EXECCOMMAND, s)}]
    /\ nsends' = nsends + 1
    /\ UNCHANGED << writer, reader, cur, conn, rtask, pwOk, ctl, authed, nconn, nbursts >>
    /\ UNCHANGED beyond_client

\* send_command on a client without a stream: assert self._writer is not None
SendCommandNoWriter(s) ==
    /\ CanSend(s)
    /\ writer = 0
    /\ Failed(s, SERVERDATA_EXECCOMMAND, "AssertionError")
    /\ nsends' = nsends + 1
    /\ UNCHANGED << writer, reader, cur, conn, rtask, srv, pwOk, ctl, authed, nconn, nbursts >>
    /\ UNCHANGED beyond_client

\* send_command on a stream that is closing or lost: the bytes go nowhere
SendCommandDropped(s) ==
    /\ CanSend(s)
    /\ writer # 0 /\ conn[writer] = "down"
    /\ Awaiting(s, SERVERDATA_EXECCOMMAND)
    /\ nsends' = nsends + 1
    /\ UNCHANGED << writer, reader, cur, conn, rtask, srv, pwOk, ctl, authed, nconn, nbursts >>
    /\ UNCHANGED beyond_client

\* send_command on a lost stream: writer.drain() raises ConnectionResetError
SendCommandWriteError(s) ==
    /\ CanSend(s)
    /\ writer # 0 /\ conn[writer] = "down"
    /\ Failed(s, SERVERDATA_EXECCOMMAND, "ConnectionResetError")
    /\ nsends' = nsends + 1
    /\ UNCHANGED << writer, reader, cur, conn, rtask, srv, pwOk, ctl, authed, nconn, nbursts >>
    /\ UNCHANGED beyond_client

\* asyncio.wait_for reaches its deadline and cancels inner_send: the future it
\* awaits is cancelled, or, if that future is already done, the task is marked
\* to be cancelled when it next runs
TimeoutCancel(s) ==
    /\ pc[s] = "await"
    /\ s \in timer
    /\ timer' = timer \ {s}
    /\ IF fut[s].st = "pending"
         THEN fut' = [fut EXCEPT ![s] = FutCancelled] /\ UNCHANGED mustCancel
         ELSE mustCancel' = [mustCancel EXCEPT ![s] = TRUE] /\ UNCHANGED fut
    /\ last' = NoCall
    /\ UNCHANGED << next_id, writer, reader, cur, maps, conn, rtask, srv, pwOk, ctl,
                    pc, rid, rmap, authed, nconn, nsends, nbursts >>
    /\ UNCHANGED beyond_client

\* what the awaited future gives inner_send when it runs again
Awaited(s) ==
    IF mustCancel[s] \/ fut[s].st = "cancelled" THEN Raised("TimeoutError")
    ELSE IF fut[s].st = "result" THEN Returned(fut[s].pkt)
    ELSE Raised(fut[s].st)

\* an inner_send that reads self._expected_responses_by_request_id again
ClientRef(s) == cur

\* the local reference inner_send took to the dict before it registered
LocalRef(s) == rmap[s]

\* inner_send runs again: finally: del dict[pkt.pkt_id], whose KeyError replaces
\* whatever was being returned or raised
Finished(s) ==
    IF rid[s] \in DOMAIN maps[LocalRef(s)] THEN Awaited(s) ELSE Raised("KeyError")

\* connect's assert login_pkt.pkt_id == response.pkt_id on what _send_packet gave
Checked(s, o) ==
    IF s = AuthSlot /\ o.kind = "result" /\ o.pkt.pkt_id # rid[s]
      THEN Raised("AssertionError") ELSE o

\* _send_packet returns or raises to its caller
Woken(s) ==
    /\ pc[s] = "await"
    /\ fut[s].st # "pending" \/ mustCancel[s]
    /\ maps' = Deregistered(maps, LocalRef(s), rid[s])
    /\ last' = Call(s, rid[s], rmap[s], Checked(s, Finished(s)))
    /\ pc' = [pc EXCEPT ![s] = "idle"]
    /\ rid' = [rid EXCEPT ![s] = 0]
    /\ rmap' = [rmap EXCEPT ![s] = 0]
    /\ fut' = [fut EXCEPT ![s] = FutPending]
    /\ mustCancel' = [mustCancel EXCEPT ![s] = FALSE]
    /\ timer' = timer \ {s}
    /\ ctl' = IF s = AuthSlot THEN "idle" ELSE ctl
    /\ UNCHANGED << next_id, writer, reader, cur, conn, rtask, srv, pwOk, authed,
                    nconn, nsends, nbursts >>

Wake(s) == Woken(s) /\ UNCHANGED beyond_client

\* A block of BurstLen send_command calls made one after the other on a
\* healthy, authenticated connection, each answered and returned before the
\* next is made: all that is left of them is the advanced counter. None of
\* their ids is an id that is registered at the time.
SendBurst ==
    /\ nbursts < MaxBursts
    /\ ctl = "idle"
    /\ writer # 0 /\ conn[writer] = "open"
    /\ rtask[writer].st = "running" /\ rtask[writer].map = cur
    /\ writer \in authed
    /\ \A i \in DOMAIN maps[cur] : ~IdsOfMany(next_id, BurstLen, i)
    /\ next_id' = IdAfterMany(next_id, BurstLen)
    /\ nbursts' = nbursts + 1
    /\ last' = NoCall
    /\ UNCHANGED << writer, reader, cur, maps, conn, rtask, srv, pwOk, ctl, pc, rid,
                    rmap, fut, mustCancel, timer, authed, nconn, nsends >>
    /\ UNCHANGED beyond_client

\* ------------------------------------------------------- _consume_reader
Crashed(k, e) == [rtask EXCEPT ![k].st = e]

\* Future.set_result / set_exception on the future of slot a: a future that is
\* already done or cancelled raises InvalidStateError, which ends the reader
Resolve(k, a, f) ==
    IF fut[a].st = "pending"
      THEN fut' = [fut EXCEPT ![a] = f] /\ UNCHANGED rtask
      ELSE rtask' = Crashed(k, "InvalidStateError") /\ UNCHANGED fut

\* a reader that hands every answer to the oldest registered request
ExpectedOldest(m, p) == m[CHOOSE i \in DOMAIN m : \A j \in DOMAIN m : i <= j]

\* expected_responses_by_request_id[pkt.pkt_id]
Expected(m, p) == m[p.pkt_id]

\* a reader that takes the empty response value for the answer to the login
SkippedNever(m, p) == FALSE

\* if pkt.type == _SERVERDATA_RESPONSE_VALUE and expected_response.is_auth
Skipped(m, p) == p.type = SERVERDATA_RESPONSE_VALUE /\ Expected(m, p).is_auth

\* one turn of the while loop on packet p; a packet whose id is not a key of
\* the dict is logged and dropped
Consume(k, p) ==
    LET m == maps[rtask[k].map]
        auth_responses == {i \in DOMAIN m : m[i].is_auth}
    IN
    IF p.type = SERVERDATA_AUTH_RESPONSE /\ p.pkt_id = AUTH_FAILURE_ID
      THEN IF Cardinality(auth_responses) # 1
             THEN rtask' = Crashed(k, "AssertionError") /\ UNCHANGED fut
             ELSE Resolve(k, m[CHOOSE i \in auth_responses : TRUE].slot, FutException(p))
    ELSE IF p.pkt_id \notin DOMAIN m
      THEN UNCHANGED << fut, rtask >>
    ELSE IF Skipped(m, p)
      THEN UNCHANGED << fut, rtask >>
    ELSE Resolve(k, Expected(m, p).slot, FutResult(p))

\* -------------------------------------------------------- console server
\* the next packet the server sends for a request w it received: a command is
\* answered by a response value; an auth request by an empty response value
\* and then by the auth response, with id -1 if the password is wrong
Answer(w) ==
    IF w.type = SERVERDATA_AUTH /\ w.stage = 1
      THEN _Packet(IF pwOk THEN w.pkt_id ELSE AUTH_FAILURE_ID, SERVERDATA_AUTH_RESPONSE, w.body)
      ELSE _Packet(w.pkt_id, SERVERDATA_RESPONSE_VALUE, w.body)

\* with this answer the server accepts the password
Accepts(w) == w.type = SERVERDATA_AUTH /\ w.stage = 1 /\ pwOk

Answered(k, w) ==
    IF w.type = SERVERDATA_AUTH /\ w.stage = 0
      THEN [srv EXCEPT ![k] = (@ \ {w}) \cup {[w EXCEPT !.stage = 1]}]
      ELSE [srv EXCEPT ![k] = @ \ {w}]

\* the server answers one of the requests it holds, in any order, and the
\* reader of that connection reads the packet
ReadAnswer(k, w) ==
    /\ rtask[k].st = "running"
    /\ w \in srv[k]
    /\ Consume(k, Answer(w))
    /\ srv' = Answered(k, w)
    /\ authed' = IF Accepts(w) THEN authed \cup {k} ELSE authed
    /\ last' = NoCall
    /\ UNCHANGED << next_id, writer, reader, cur, maps, conn, pwOk, ctl, pc, rid, rmap,
                    mustCancel, timer, nconn, nsends, nbursts >>
    /\ UNCHANGED beyond_client

\* the stream ended (closed by aclose): readexactly raises
\* IncompleteReadError and the reader returns; what the server still had to
\* answer on this connection is never read
ReadEof(k) ==
    /\ rtask[k].st = "running"
    /\ conn[k] = "down"
    /\ rtask' = [rtask EXCEPT ![k].st = "ended"]
    /\ srv' = [srv EXCEPT ![k] = {}]
    /\ last' = NoCall
    /\ UNCHANGED << next_id, writer, reader, cur, maps, conn, pwOk, ctl, pc, rid, rmap,
                    fut, mustCancel, timer, authed, nconn, nsends, nbursts >>
    /\ UNCHANGED beyond_client

\* ------------------------------------------------------ RCONClient.aclose
\* aclose up to await self._writer.wait_closed(): self._writer.close()
CloseWriter == conn' = [conn EXCEPT ![writer] = "down"]

\* aclose after wait_closed (all of aclose when there is no writer)
Reset ==
    /\ writer' = 0
    /\ reader' = 0
    /\ next_id' = 0
    /\ cur' = cur + 1

AcloseNoWriter ==
    /\ ctl = "idle" /\ writer = 0 /\ cur < MaxGen
    /\ Reset
    /\ last' = NoCall
    /\ UNCHANGED << maps, conn, rtask, srv, pwOk, ctl, pc, rid, rmap, fut, mustCancel,
                    timer, authed, nconn, nsends, nbursts >>
    /\ UNCHANGED beyond_client

AcloseBegin ==
    /\ ctl = "idle" /\ writer # 0 /\ cur < MaxGen
    /\ CloseWriter
    /\ ctl' = "aclose"
    /\ last' = NoCall
    /\ UNCHANGED << next_id, writer, reader, cur, maps, rtask, srv, pwOk, pc, rid, rmap,
                    fut, mustCancel, timer, authed, nconn, nsends, nbursts >>
    /\ UNCHANGED beyond_client

AcloseEnd ==
    /\ ctl = "aclose"
    /\ Reset
    /\ ctl' = "idle"
    /\ last' = NoCall
    /\ UNCHANGED << maps, conn, rtask, srv, pwOk, pc, rid, rmap, fut, mustCancel,
                    timer, authed, nconn, nsends, nbursts >>
    /\ UNCHANGED beyond_client

\* ----------------------------------------------------- RCONClient.connect
CanConnect == ctl = "idle" /\ nconn < MaxConn /\ cur < MaxGen

\* connect on a client without a writer: aclose, then open_connection is awaited
ConnectNoWriter ==
    /\ CanConnect /\ writer = 0
    /\ Reset
    /\ ctl' = "opening"
    /\ last' = NoCall
    /\ UNCHANGED << maps, conn, rtask, srv, pwOk, pc, rid, rmap, fut, mustCancel,
                    timer, authed, nconn, nsends, nbursts >>
    /\ UNCHANGED beyond_client

\* connect on a client with a writer: aclose closes it and waits
ConnectCloseBegin ==
    /\ CanConnect /\ writer # 0
    /\ CloseWriter
    /\ ctl' = "connect_aclose"
    /\ last' = NoCall
    /\ UNCHANGED << next_id, writer, reader, cur, maps, rtask, srv, pwOk, pc, rid, rmap,
                    fut, mustCancel, timer, authed, nconn, nsends, nbursts >>
    /\ UNCHANGED beyond_client

ConnectCloseEnd ==
    /\ ctl = "connect_aclose"
    /\ Reset
    /\ ctl' = "opening"
    /\ last' = NoCall
    /\ UNCHANGED << maps, conn, rtask, srv, pwOk, pc, rid, rmap, fut, mustCancel,
                    timer, authed, nconn, nsends, nbursts >>
    /\ UNCHANGED beyond_client

\* open_connection returns: the reader task is created on the dict the client
\* holds, and the login packet is sent through _send_packet
OpenConnection ==
    /\ ctl = "opening"
    /\ LET k == nconn + 1 IN
       /\ nconn' = k
       /\ writer' = k
       /\ reader' = k
       /\ conn' = [conn EXCEPT ![k] = "open"]
       /\ rtask' = [rtask EXCEPT ![k] = [st |-> "running", map |-> cur]]
       /\ srv' = [srv EXCEPT ![k] = @ \cup {Work(next_id, SERVERDATA_AUTH, AuthSlot)}]
    /\ Awaiting(AuthSlot, SERVERDATA_AUTH)
    /\ ctl' = "auth"
    /\ UNCHANGED << cur, pwOk, authed, nsends, nbursts >>
    /\ UNCHANGED beyond_client

\* open_connection raises: nothing listens on the port
OpenRefused ==
    /\ ctl = "opening"
    /\ ctl' = "idle"
    /\ last' = Call(AuthSlot, 0, cur, Raised("ConnectionRefusedError"))
    /\ UNCHANGED << next_id, writer, reader, cur, maps, conn, rtask, srv, pwOk, pc, rid,
                    rmap, fut, mustCancel, timer, authed, nconn, nsends, nbursts >>
    /\ UNCHANGED beyond_client

\* ------------------------------------------------------------------ Next
Next ==
    \/ \E s \in Senders : SendCommand(s)
    \/ \E s \in Senders : SendCommandNoWriter(s)
    \/ \E s \in Senders : SendCommandDropped(s)
    \/ \E s \in Senders : SendCommandWriteError(s)
    \/ \E s \in Slots : TimeoutCancel(s)
    \/ \E s \in Slots : Wake(s)
    \/ SendBurst
    \/ \E k \in Conns : \E w \in srv[k] : ReadAnswer(k, w)
    \/ \E k \in Conns : ReadEof(k)
    \/ AcloseNoWriter
    \/ AcloseBegin
    \/ AcloseEnd
    \/ ConnectNoWriter
    \/ ConnectCloseBegin
    \/ ConnectCloseEnd
    \/ OpenConnection
    \/ OpenRefused

Spec == Init /\ [][Next]_vars

\* The client used by one task that sends and by the tasks that connect and
\* close, with what asyncio guarantees: a timer that was set fires, and a task
\* that can run is run.
FairNext ==
    \/ SendCommand(1)
    \/ SendCommandNoWriter(1)
    \/ SendCommandDropped(1)
    \/ SendCommandWriteError(1)
    \/ \E s \in Slots : TimeoutCancel(s)
    \/ \E s \in Slots : Wake(s)
    \/ \E k \in Conns : \E w \in srv[k] : ReadAnswer(k, w)
    \/ \E k \in Conns : ReadEof(k)
    \/ AcloseNoWriter
    \/ AcloseBegin
    \/ AcloseEnd
    \/ ConnectNoWriter
    \/ ConnectCloseBegin
    \/ ConnectCloseEnd
    \/ OpenConnection
    \/ OpenRefused

FairSpec ==
    /\ Init /\ [][FairNext]_vars
    /\ \A s \in Slots : WF_vars(TimeoutCancel(s)) /\ WF_vars(Wake(s))

\* ====================================================================
\* The process supervisor: create_server, _try_create_server, _open_rcon and
\* FactorioServer.aclose of factorio_server.py, with the child process and
\* the asyncio event loop that watches it.
beyond_server == << vars, save_vars, world_vars, mod_vars, frame_vars, eval_vars, codec_vars >>

\* the child has terminated: "dead" before the event loop saw the exit,
\* "gone" after it did, "exited" when it terminated after being signalled
Exited(a) == proc[a] \in {"dead", "gone", "exited"}

\* Process.kill(): raises ProcessLookupError once the loop saw the exit;
\* otherwise the signal is sent (to a child that is dead already, nothing is)
KillRaises(a) == proc[a] = "gone"
Signalled(a) == [proc EXCEPT ![a] = IF @ = "running" THEN "signalled" ELSE @]

\* a wait() that does not wait
WaitReturnsAtOnce(a) == TRUE

\* Process.wait() returns once the loop saw the exit
WaitReturns(a) == proc[a] \in {"gone", "exited"}

\* an except clause that skips the removal of the working directory
NoRmtree(ds, d) == ds

\* shutil.rmtree(d) on the directories ds
Rmtree(ds, d) == ds \ {d}

\* the except clause of lines 243-250 on exception e: under pytest the server
\* log is printed first, and if there is no log file the FileNotFoundError of
\* open() is what the finally clause re-raises, after the same rmtree
Reraised(e) == IF pytest /\ tmpdir \notin logs THEN "FileNotFoundError" ELSE e

\* a create_server that retries after every failure
RetriedAlways(e) == TRUE

\* except rcon.RCONAuthFailure of create_server
Retried(e) == e = "RCONAuthFailure"

\* _try_create_server leaves its try block with exception e, and create_server
\* handles what it raises: the next turn of the loop, or the end of the call
RaiseFromTry(e) ==
    /\ dirs' = Rmtree(dirs, tmpdir)
    /\ logs' = logs \ {tmpdir}
    /\ tried' = [tried EXCEPT ![attempt] = Reraised(e)]
    /\ IF Retried(Reraised(e))
         THEN IF attempt < LaunchAttempts
                THEN lpc' = "start" /\ UNCHANGED outcome
                ELSE lpc' = "done" /\ outcome' = "LaunchExhausted"
         ELSE lpc' = "done" /\ outcome' = Reraised(e)

\* the except clause of lines 235-242 on exception e
KillAndRaise(e) ==
    IF KillRaises(attempt)
      THEN RaiseFromTry(e) /\ UNCHANGED << proc, perr >>
      ELSE /\ proc' = Signalled(attempt)
           /\ perr' = e
           /\ lpc' = "wait"
           /\ UNCHANGED << dirs, logs, tried, outcome >>

\* create_server calls _try_create_server (for the first time, or again):
\* tempfile.mkdtemp() makes a directory that did not exist
Mkdtemp(d) ==
    /\ lpc \in {"idle", "start"}
    /\ d \notin dirs
    /\ attempt' = attempt + 1
    /\ dirs' = dirs \cup {d}
    /\ tmpdir' = d
    /\ port' = 0 /\ rcon_port' = 0 /\ peer' = "none"
    /\ tries' = 0 /\ last_exception' = "none"
    /\ lpc' = "write"
    /\ UNCHANGED << logs, proc, perr, tried, outcome, client, pytest, delete_tmpdir,
                    hpc, closed >>
    /\ UNCHANGED beyond_server

\* tempfile.mkdtemp() raises, outside the try block
MkdtempFails ==
    /\ lpc \in {"idle", "start"}
    /\ attempt' = attempt + 1
    /\ tried' = [tried EXCEPT ![attempt + 1] = "OSError"]
    /\ outcome' = "OSError"
    /\ lpc' = "done"
    /\ UNCHANGED << dirs, logs, tmpdir, port, rcon_port, peer, proc, perr,
                    last_exception, tries, client, pytest, delete_tmpdir, hpc, closed >>
    /\ UNCHANGED beyond_server

\* saves/save.zip, config.ini and server-settings.json are written
WriteFiles ==
    /\ lpc = "write"
    /\ lpc' = "install"
    /\ UNCHANGED << dirs, logs, tmpdir, attempt, port, rcon_port, peer, proc, perr,
                    last_exception, tries, tried, outcome, client, pytest,
                    delete_tmpdir, hpc, closed >>
    /\ UNCHANGED beyond_server

WriteFilesFails ==
    /\ lpc = "write"
    /\ RaiseFromTry("OSError")
    /\ UNCHANGED << tmpdir, attempt, port, rcon_port, peer, proc, perr,
                    last_exception, tries, client, pytest, delete_tmpdir, hpc, closed >>
    /\ UNCHANGED beyond_server

\* factorio_mod.install_mod(mod_dir)
InstallMod ==
    /\ lpc = "install"
    /\ lpc' = "spawn"
    /\ UNCHANGED << dirs, logs, tmpdir, attempt, port, rcon_port, peer, proc, perr,
                    last_exception, tries, tried, outcome, client, pytest,
                    delete_tmpdir, hpc, closed >>
    /\ UNCHANGED beyond_server

InstallModFails ==
    /\ lpc = "install"
    /\ RaiseFromTry("OSError")
    /\ UNCHANGED << tmpdir, attempt, port, rcon_port, peer, proc, perr,
                    last_exception, tries, client, pytest, delete_tmpdir, hpc, closed >>
    /\ UNCHANGED beyond_server

\* the ports are allocated and anyio.open_process starts the child; another
\* server may have taken the console port since the allocator released it
OpenProcess(p, r, w) ==
    /\ lpc = "spawn"
    /\ port' = p /\ rcon_port' = r /\ peer' = w
    /\ proc' = [proc EXCEPT ![attempt] = "running"]
    /\ client' = [client EXCEPT ![attempt] = "unconnected"]
    /\ lpc' = "connect"
    /\ UNCHANGED << dirs, logs, tmpdir, attempt, perr, last_exception, tries, tried,
                    outcome, pytest, delete_tmpdir, hpc, closed >>
    /\ UNCHANGED beyond_server

\* anyio.open_process raises (no such binary)
OpenProcessFails(p, r) ==
    /\ lpc = "spawn"
    /\ port' = p /\ rcon_port' = r
    /\ RaiseFromTry("OSError")
    /\ UNCHANGED << tmpdir, attempt, peer, proc, perr, last_exception, tries, client,
                    pytest, delete_tmpdir, hpc, closed >>
    /\ UNCHANGED beyond_server

\* ------------------------------------------------------------- _open_rcon
\* while time.time() < deadline, seen from a turn of the loop
BeforeDeadline == tries < MaxTries

\* client.connect(2) returns: the child listens and takes the password
ConnectOk ==
    /\ lpc = "connect" /\ BeforeDeadline
    /\ proc[attempt] = "running" /\ peer = "own"
    /\ last_exception' = "none"
    /\ tries' = tries + 1
    /\ client' = [client EXCEPT ![attempt] = "authed"]
    /\ lpc' = "tick"
    /\ UNCHANGED << dirs, logs, tmpdir, attempt, port, rcon_port, peer, proc, perr,
                    tried, outcome, pytest, delete_tmpdir, hpc, closed >>
    /\ UNCHANGED beyond_server

\* client.connect(2) raises ConnectionRefusedError: nothing listens yet
ConnectRefused ==
    /\ lpc = "connect" /\ BeforeDeadline
    /\ peer = "own"
    /\ last_exception' = "ConnectionRefusedError"
    /\ tries' = tries + 1
    /\ client' = [client EXCEPT ![attempt] = "unconnected"]
    /\ UNCHANGED << dirs, logs, tmpdir, attempt, lpc, port, rcon_port, peer, proc, perr,
                    tried, outcome, pytest, delete_tmpdir, hpc, closed >>
    /\ UNCHANGED beyond_server

\* client.connect(2) raises TimeoutError: the login was not answered in time;
\* the stream connect opened stays open
ConnectTimeout ==
    /\ lpc = "connect" /\ BeforeDeadline
    /\ last_exception' = "TimeoutError"
    /\ tries' = tries + 1
    /\ client' = [client EXCEPT ![attempt] = "open"]
    /\ UNCHANGED << dirs, logs, tmpdir, attempt, lpc, port, rcon_port, peer, proc, perr,
                    tried, outcome, pytest, delete_tmpdir, hpc, closed >>
    /\ UNCHANGED beyond_server

\* an _open_rcon whose loop catches RCONAuthFailure like the other two errors
ConnectAuthFailureCaught ==
    /\ lpc = "connect" /\ BeforeDeadline
    /\ peer = "other"
    /\ last_exception' = "RCONAuthFailure"
    /\ tries' = tries + 1
    /\ client' = [client EXCEPT ![attempt] = "open"]
    /\ UNCHANGED << dirs, logs, tmpdir, attempt, lpc, port, rcon_port, peer, proc, perr,
                    tried, outcome, pytest, delete_tmpdir, hpc, closed >>
    /\ UNCHANGED beyond_server

\* client.connect(2) raises RCONAuthFailure: another server has the port and
\* does not know this directory's name; _open_rcon does not catch it
ConnectAuthFailure ==
    /\ lpc = "connect" /\ BeforeDeadline
    /\ peer = "other"
    /\ tries' = tries + 1
    /\ client' = [client EXCEPT ![attempt] = "open"]
    /\ KillAndRaise("RCONAuthFailure")
    /\ UNCHANGED << tmpdir, attempt, port, rcon_port, peer, last_exception, pytest,
                    delete_tmpdir, hpc, closed >>
    /\ UNCHANGED beyond_server

\* the deadline has passed: raise last_exception
DeadlinePassed ==
    /\ lpc = "connect"
    /\ last_exception # "none"
    /\ KillAndRaise(last_exception)
    /\ UNCHANGED << tmpdir, attempt, port, rcon_port, peer, last_exception, tries,
                    client, pytest, delete_tmpdir, hpc, closed >>
    /\ UNCHANGED beyond_server

\* --------------------------------------- the tick query and the handle
\* rcon.print(game.tick) is answered with a number: the FactorioServer is made
TickQuery ==
    /\ lpc = "tick"
    /\ proc[attempt] = "running"
    /\ outcome' = "server"
    /\ lpc' = "done"
    /\ hpc' = "live"
    /\ UNCHANGED << dirs, logs, tmpdir, attempt, port, rcon_port, peer, proc, perr,
                    last_exception, tries, tried, client, pytest, delete_tmpdir, closed >>
    /\ UNCHANGED beyond_server

\* send_command raises TimeoutError, or int() raises ValueError on the answer
TickQueryFails(e) ==
    /\ lpc = "tick"
    /\ KillAndRaise(e)
    /\ UNCHANGED << tmpdir, attempt, port, rcon_port, peer, last_exception, tries,
                    client, pytest, delete_tmpdir, hpc, closed >>
    /\ UNCHANGED beyond_server

\* await process.wait() of line 238 returns; finally: raise
Waited ==
    /\ lpc = "wait"
    /\ WaitReturns(attempt)
    /\ RaiseFromTry(perr)
    /\ perr' = "none"
    /\ UNCHANGED << tmpdir, attempt, port, rcon_port, peer, proc, last_exception,
                    tries, client, pytest, delete_tmpdir, hpc, closed >>
    /\ UNCHANGED beyond_server

\* ------------------------------------------------------ the child process
\* the engine opens factorio-current.log in its write-data directory
ChildOpensLog ==
    /\ attempt > 0 /\ proc[attempt] = "running"
    /\ tmpdir \in dirs /\ tmpdir \notin logs
    /\ logs' = logs \cup {tmpdir}
    /\ UNCHANGED << dirs, tmpdir, attempt, lpc, port, rcon_port, peer, proc, perr,
                    last_exception, tries, tried, outcome, client, pytest,
                    delete_tmpdir, hpc, closed >>
    /\ UNCHANGED beyond_server

\* the child terminates by itself, or by the signal it was sent
ChildExits(a) ==
    /\ proc[a] \in {"running", "signalled"}
    /\ proc' = [proc EXCEPT ![a] = IF @ = "running" THEN "dead" ELSE "exited"]
    /\ UNCHANGED << dirs, logs, tmpdir, attempt, lpc, port, rcon_port, peer, perr,
                    last_exception, tries, tried, outcome, client, pytest,
                    delete_tmpdir, hpc, closed >>
    /\ UNCHANGED beyond_server

\* the event loop's child watcher reports the exit to the transport
LoopSeesExit(a) ==
    /\ proc[a] = "dead"
    /\ proc' = [proc EXCEPT ![a] = "gone"]
    /\ UNCHANGED << dirs, logs, tmpdir, attempt, lpc, port, rcon_port, peer, perr,
                    last_exception, tries, tried, outcome, client, pytest,
                    delete_tmpdir, hpc, closed >>
    /\ UNCHANGED beyond_server

\* --------------------------------------------------- FactorioServer.aclose
\* the owner of the handle sets delete_tmpdir = False
KeepTmpdir ==
    /\ hpc = "live" /\ delete_tmpdir
    /\ delete_tmpdir' = FALSE
    /\ UNCHANGED << dirs, logs, tmpdir, attempt, lpc, port, rcon_port, peer, proc, perr,
                    last_exception, tries, tried, outcome, client, pytest, hpc, closed >>
    /\ UNCHANGED beyond_server

\* aclose up to the await inside self.rcon.aclose(): the stream is closing
CloseRcon ==
    /\ hpc = "live"
    /\ hpc' = "rcon_aclose"
    /\ client' = [client EXCEPT ![attempt] = "closing"]
    /\ UNCHANGED << dirs, logs, tmpdir, attempt, lpc, port, rcon_port, peer, proc, perr,
                    last_exception, tries, tried, outcome, pytest, delete_tmpdir, closed >>
    /\ UNCHANGED beyond_server

\* self.rcon.aclose() returns (e = "none") or raises e, and the finally clause
\* of lines 78-90 signals the child
CloseSignal(e) ==
    /\ hpc = "rcon_aclose"
    /\ e = "none" \/ Exited(attempt)
    /\ client' = [client EXCEPT ![attempt] = IF e = "none" THEN "closed" ELSE @]
    /\ IF KillRaises(attempt)
         THEN /\ delete_tmpdir' = FALSE
              /\ closed' = "ProcessLookupError"
              /\ hpc' = "closed"
              /\ UNCHANGED proc
         ELSE /\ proc' = Signalled(attempt)
              /\ closed' = e
              /\ hpc' = IF e = "none" THEN "wait" ELSE "closed"
              /\ UNCHANGED delete_tmpdir
    /\ UNCHANGED << dirs, logs, tmpdir, attempt, lpc, port, rcon_port, peer, perr,
                    last_exception, tries, tried, outcome, pytest >>
    /\ UNCHANGED beyond_server

\* an aclose that removes the directory whatever the flag says
DeletesAlways == TRUE

\* if self.delete_tmpdir:
Deletes == delete_tmpdir

\* await self.process.wait() returns; under pytest the log is printed, which
\* raises if there is none; then the directory is removed if delete_tmpdir
CloseWaited ==
    /\ hpc = "wait"
    /\ WaitReturns(attempt)
    /\ hpc' = "closed"
    /\ IF pytest /\ tmpdir \notin logs
         THEN closed' = "FileNotFoundError" /\ UNCHANGED << dirs, logs >>
         ELSE /\ closed' = "ok"
              /\ dirs' = IF Deletes THEN Rmtree(dirs, tmpdir) ELSE dirs
              /\ logs' = IF Deletes THEN logs \ {tmpdir} ELSE logs
    /\ UNCHANGED << tmpdir, attempt, lpc, port, rcon_port, peer, proc, perr,
                    last_exception, tries, tried, outcome, client, pytest, delete_tmpdir >>
    /\ UNCHANGED beyond_server

\* ------------------------------------------------------------- ServerSpec
ServerInit ==
    /\ ServerUnused
    /\ pytest \in BOOLEAN
    /\ ClientUnused
    /\ SaveUnused
    /\ ModUnused
    /\ EvaluatorUnused
    /\ CodecUnused
    /\ StreamUnused
    /\ WorldCreated(0)

ServerNext ==
    \/ \E d \in Dirs : Mkdtemp(d)
    \/ MkdtempFails
    \/ WriteFiles
    \/ WriteFilesFails
    \/ InstallMod
    \/ InstallModFails
    \/ \E p \in Ports, r \in Ports, w \in {"own", "other"} : OpenProcess(p, r, w)
    \/ \E p \in Ports, r \in Ports : OpenProcessFails(p, r)
    \/ ConnectOk
    \/ ConnectRefused
    \/ ConnectTimeout
    \/ ConnectAuthFailure
    \/ DeadlinePassed
    \/ TickQuery
    \/ \E e \in {"TimeoutError", "ValueError"} : TickQueryFails(e)
    \/ Waited
    \/ ChildOpensLog
    \/ \E a \in Attempts : ChildExits(a)
    \/ \E a \in Attempts : LoopSeesExit(a)
    \/ KeepTmpdir
    \/ CloseRcon
    \/ \E e \in {"none", "ConnectionResetError"} : CloseSignal(e)
    \/ CloseWaited

ServerSpec == ServerInit /\ [][ServerNext]_server_vars

\* ====================================================================
\* FactorioServer.save_world of factorio_server.py, with the engine that
\* receives the save commands, writes the artifacts and appends to the log.
beyond_save == << vars, server_vars, world_vars, mod_vars, frame_vars, eval_vars, codec_vars >>

\* a line of the log: what it says, whether its newline is written, and the
\* save_world call whose save it reports (0: none)
Line(k, n, s) == [kind |-> k, nl |-> n, by |-> s]

\* the engine can start a new line
CanAppend == Len(log) < MaxLog /\ (IF log = << >> THEN TRUE ELSE log[Len(log)].nl)

\* line.endswith("\n")
EndsWithNewline(l) == l.nl

\* "Saving finished" in line
SavingFinished(l) == l.kind = "marker"

\* async with ... open("rt"); await logfile.seek(0, os.SEEK_END)
SeekEnd(s) ==
    /\ spc[s] = "idle"
    /\ spc' = [spc EXCEPT ![s] = "send"]
    /\ start' = [start EXCEPT ![s] = Len(log)]
    /\ pos' = [pos EXCEPT ![s] = Len(log)]
    /\ mid' = [mid EXCEPT ![s] = IF log = << >> THEN FALSE ELSE ~log[Len(log)].nl]
    /\ UNCHANGED << log, issuedAt, engine, artifact, dest, result >>
    /\ UNCHANGED beyond_save

\* await self.rcon.send_command("/sc game.server_save(temp_name)") returns:
\* the engine has the command
SaveCommand(s) ==
    /\ spc[s] = "send"
    /\ spc' = [spc EXCEPT ![s] = "tail"]
    /\ issuedAt' = [issuedAt EXCEPT ![s] = Len(log)]
    /\ engine' = [engine EXCEPT ![s] = "received"]
    /\ UNCHANGED << log, start, pos, mid, artifact, dest, result >>
    /\ UNCHANGED beyond_save

\* send_command raises; the command may have reached the engine all the same
SaveCommandFails(s, got) ==
    /\ spc[s] = "send"
    /\ spc' = [spc EXCEPT ![s] = "done"]
    /\ issuedAt' = [issuedAt EXCEPT ![s] = Len(log)]
    /\ engine' = [engine EXCEPT ![s] = IF got THEN "received" ELSE @]
    /\ result' = [result EXCEPT ![s] = "TimeoutError"]
    /\ UNCHANGED << log, start, pos, mid, artifact, dest >>
    /\ UNCHANGED beyond_save

\* one turn of the while loop before the deadline: tell, readline, and seek
\* back unless a whole line was read; a whole line with the marker ends the
\* loop. The rest of a line the position was inside of does not hold the marker.
ReadLine(s) ==
    /\ spc[s] = "tail"
    /\ IF mid[s]
         THEN /\ mid' = [mid EXCEPT ![s] = ~EndsWithNewline(log[pos[s]])]
              /\ UNCHANGED << pos, spc >>
         ELSE IF pos[s] < Len(log) /\ EndsWithNewline(log[pos[s] + 1])
           THEN /\ pos' = [pos EXCEPT ![s] = @ + 1]
                /\ spc' = [spc EXCEPT ![s] =
                             IF SavingFinished(log[pos[s] + 1]) THEN "copy" ELSE @]
                /\ UNCHANGED mid
           ELSE UNCHANGED << pos, spc, mid >>
    /\ UNCHANGED << log, start, issuedAt, engine, artifact, dest, result >>
    /\ UNCHANGED beyond_save

\* the while condition is false: the else clause raises the timeout Exception
SaveTimeout(s) ==
    /\ spc[s] = "tail"
    /\ spc' = [spc EXCEPT ![s] = "done"]
    /\ result' = [result EXCEPT ![s] = "SaveTimeout"]
    /\ UNCHANGED << log, start, pos, mid, issuedAt, engine, artifact, dest >>
    /\ UNCHANGED beyond_save

\* a copy that leaves the destination as it was
NotCopied(d, a) == d

\* shutil.copyfile(src, dst) with the artifact present (a): its bytes are in dst
Copied(d, a) == d \/ a

\* copy_file_async(expected_out_path, target_file): without the artifact
\* shutil.copyfile raises FileNotFoundError before it opens the destination
CopyFile(s) ==
    /\ spc[s] = "copy"
    /\ dest' = [dest EXCEPT ![s] = Copied(@, artifact[s])]
    /\ IF artifact[s]
         THEN spc' = [spc EXCEPT ![s] = "unlink"] /\ UNCHANGED result
         ELSE /\ spc' = [spc EXCEPT ![s] = "done"]
              /\ result' = [result EXCEPT ![s] = "FileNotFoundError"]
    /\ UNCHANGED << log, start, pos, mid, issuedAt, engine, artifact >>
    /\ UNCHANGED beyond_save

\* copy_file_async raises because of the destination (its folder, its volume)
CopyFileFails(s) ==
    /\ spc[s] = "copy"
    /\ spc' = [spc EXCEPT ![s] = "done"]
    /\ result' = [result EXCEPT ![s] = "OSError"]
    /\ UNCHANGED << log, start, pos, mid, issuedAt, engine, artifact, dest >>
    /\ UNCHANGED beyond_save

\* await expected_out_path.unlink(), and save_world returns
Unlink(s) ==
    /\ spc[s] = "unlink"
    /\ spc' = [spc EXCEPT ![s] = "done"]
    /\ artifact' = [artifact EXCEPT ![s] = FALSE]
    /\ result' = [result EXCEPT ![s] = "ok"]
    /\ UNCHANGED << log, start, pos, mid, issuedAt, engine, dest >>
    /\ UNCHANGED beyond_save

\* ------------------------------------------------------------ the engine
\* the engine writes the artifact of a save command it received
EngineSaves(s) ==
    /\ engine[s] = "received"
    /\ engine' = [engine EXCEPT ![s] = "written"]
    /\ artifact' = [artifact EXCEPT ![s] = TRUE]
    /\ UNCHANGED << log, spc, start, pos, mid, issuedAt, dest, result >>
    /\ UNCHANGED beyond_save

\* the engine logs that this save is finished, the newline at once (n) or later
EngineLogsFinished(s, n) ==
    /\ engine[s] = "written"
    /\ CanAppend
    /\ engine' = [engine EXCEPT ![s] = "logged"]
    /\ log' = Append(log, Line("marker", n, s))
    /\ UNCHANGED << spc, start, pos, mid, issuedAt, artifact, dest, result >>
    /\ UNCHANGED beyond_save

\* the engine logs something else
EngineLogsOther(n) ==
    /\ CanAppend
    /\ log' = Append(log, Line("other", n, 0))
    /\ UNCHANGED << spc, start, pos, mid, issuedAt, engine, artifact, dest, result >>
    /\ UNCHANGED beyond_save

\* the engine writes the rest of the line it began
EngineEndsLine ==
    /\ log # << >>
    /\ ~log[Len(log)].nl
    /\ log' = [log EXCEPT ![Len(log)].nl = TRUE]
    /\ UNCHANGED << spc, start, pos, mid, issuedAt, engine, artifact, dest, result >>
    /\ UNCHANGED beyond_save

\* --------------------------------------------------------------- SaveSpec
SaveInit ==
    /\ SaveUnused
    /\ ModUnused
    /\ EvaluatorUnused
    /\ CodecUnused
    /\ StreamUnused
    /\ ClientUnused
    /\ ServerUnused /\ pytest = FALSE
    /\ WorldCreated(0)

SaveNext ==
    \/ \E s \in Saves : SeekEnd(s)
    \/ \E s \in Saves : SaveCommand(s)
    \/ \E s \in Saves, got \in BOOLEAN : SaveCommandFails(s, got)
    \/ \E s \in Saves : ReadLine(s)
    \/ \E s \in Saves : SaveTimeout(s)
    \/ \E s \in Saves : CopyFile(s)
    \/ \E s \in Saves : CopyFileFails(s)
    \/ \E s \in Saves : Unlink(s)
    \/ \E s \in Saves : EngineSaves(s)
    \/ \E s \in Saves, n \in BOOLEAN : EngineLogsFinished(s, n)
    \/ \E n \in BOOLEAN : EngineLogsOther(n)
    \/ EngineEndsLine

SaveSpec == SaveInit /\ [][SaveNext]_save_vars

\* ====================================================================
\* World.step and World.get_current_tick of world.py, with the engine that
\* runs the ticks. One task calls step(), one call after the other.
beyond_world == << vars, server_vars, save_vars, mod_vars, frame_vars, eval_vars, codec_vars >>

\* a get_current_tick that returns the engine's tick
AbsoluteTick == _cur_tick

\* World.get_current_tick
get_current_tick == _cur_tick - _initial_tick

\* a step() that leaves its loop and returns without comparing c to the target
ReturnUnchecked(c) ==
    /\ wpc' = "idle"
    /\ wlast' = "ok"
    /\ total' = total + num_ticks
    /\ UNCHANGED failed

\* step() leaves its while loop with _cur_tick = c: the assert, then the return
Return(c) ==
    /\ wpc' = "idle"
    /\ wlast' = IF c = _cur_target_tick THEN "ok" ELSE "AssertionError"
    /\ total' = IF c = _cur_target_tick THEN total + num_ticks ELSE total
    /\ failed' = (failed \/ c # _cur_target_tick)

\* step() raises e
Raise(e) ==
    /\ wpc' = "idle"
    /\ wlast' = e
    /\ failed' = TRUE
    /\ UNCHANGED total

\* while self._cur_tick < self._cur_target_tick, with _cur_tick = c: sleep and
\* poll again, or leave the loop
Loop(c) ==
    IF c < _cur_target_tick
      THEN wpc' = "poll" /\ UNCHANGED << wlast, total, failed >>
      ELSE Return(c)

\* step(n) up to await self.call_mod(None, "step", [n])
StepBegin(n) ==
    /\ wpc = "idle" /\ nsteps < MaxSteps
    /\ nsteps' = nsteps + 1
    /\ num_ticks' = n
    /\ _cur_target_tick' = _cur_target_tick + n
    /\ wpc' = "rpc"
    /\ UNCHANGED << _initial_tick, _cur_tick, etick, todo, total, failed, wlast, ndrift >>
    /\ UNCHANGED beyond_world

\* call_mod returns: the engine will run num_ticks more ticks (none for a
\* negative number); then the first test of the loop
StepRpc ==
    /\ wpc = "rpc"
    /\ todo' = todo + (IF num_ticks > 0 THEN num_ticks ELSE 0)
    /\ Loop(_cur_tick)
    /\ UNCHANGED << _initial_tick, _cur_tick, _cur_target_tick, etick, num_ticks,
                    nsteps, ndrift >>
    /\ UNCHANGED beyond_world

\* call_mod raises e: an RPC error, or a timeout with the request accepted
\* by the engine (ran) or not
StepRpcFails(e, ran) ==
    /\ wpc = "rpc"
    /\ ran => (e = "TimeoutError" /\ num_ticks > 0)
    /\ todo' = todo + (IF ran THEN num_ticks ELSE 0)
    /\ Raise(e)
    /\ UNCHANGED << _initial_tick, _cur_tick, _cur_target_tick, etick, num_ticks,
                    nsteps, ndrift >>
    /\ UNCHANGED beyond_world

\* after the sleep: _cur_tick = int(rcon.print(game.tick)), then the loop test
Poll ==
    /\ wpc = "poll"
    /\ _cur_tick' = etick
    /\ Loop(etick)
    /\ UNCHANGED << _initial_tick, _cur_target_tick, etick, todo, num_ticks,
                    nsteps, ndrift >>
    /\ UNCHANGED beyond_world

\* the tick query raises
PollFails ==
    /\ wpc = "poll"
    /\ Raise("TimeoutError")
    /\ UNCHANGED << _initial_tick, _cur_tick, _cur_target_tick, etick, todo,
                    num_ticks, nsteps, ndrift >>
    /\ UNCHANGED beyond_world

\* the engine runs one of the ticks it was asked for
EngineTick ==
    /\ todo > 0
    /\ todo' = todo - 1
    /\ etick' = etick + 1
    /\ UNCHANGED << _initial_tick, _cur_tick, _cur_target_tick, wpc, num_ticks, total,
                    failed, wlast, nsteps, ndrift >>
    /\ UNCHANGED beyond_world

\* the engine runs a tick nobody asked this World for
EngineDrift ==
    /\ ndrift < MaxDrift
    /\ ndrift' = ndrift + 1
    /\ etick' = etick + 1
    /\ UNCHANGED << _initial_tick, _cur_tick, _cur_target_tick, todo, wpc, num_ticks,
                    total, failed, wlast, nsteps >>
    /\ UNCHANGED beyond_world

WorldInit ==
    /\ \E t \in InitialTicks : WorldCreated(t)
    /\ ClientUnused
    /\ ServerUnused /\ pytest = FALSE
    /\ SaveUnused
    /\ ModUnused
    /\ EvaluatorUnused
    /\ CodecUnused
    /\ StreamUnused

WorldNext ==
    \/ \E n \in StepSizes : StepBegin(n)
    \/ StepRpc
    \/ \E e \in {"RpcException", "TimeoutError"}, ran \in BOOLEAN : StepRpcFails(e, ran)
    \/ Poll
    \/ PollFails
    \/ EngineTick
    \/ EngineDrift

WorldSpec == WorldInit /\ [][WorldNext]_world_vars

\* ====================================================================
\* World.call_mod and World.create_entities of world.py, on the connected
\* protocol client of the World, with the mod that answers the requests.
beyond_mod == << server_vars, save_vars, world_vars, frame_vars, eval_vars, codec_vars >>

MaxStr == 1          \* characters of a method name, a parameter or an entity name
MaxParams == 1       \* parameters of a direct call_mod

Chars == {"a", "'", "\""}
Strings == UNION {[1..n -> Chars] : n \in 0..MaxStr}
Params == UNION {[1..n -> Strings] : n \in 0..MaxParams}
Batches == UNION {[1..n -> Strings] : n \in 0..NumSenders}

\* what call_mod is given as return_type: None, type(None), Optional[T],
\* a union of None and two more types, or a type T
ReturnTypes == {"None", "NoneType", "Optional", "Union", "Plain"}

\* the replies of the mod: {"result": ..., "error": ...}
Envelopes == {Envelope(r, e) : r \in {"null", "fit", "misfit"}, e \in BOOLEAN}

\* json.dumps of a string: the double quote and the backslash are escaped, the
\* single quote is not
RECURSIVE Escaped(_)
Escaped(s) ==
    IF s = << >> THEN << >>
    ELSE (IF Head(s) \in {"\"", "\\"} THEN << "\\", Head(s) >> ELSE << Head(s) >>)
         \o Escaped(Tail(s))

JsonString(s) == << "\"" >> \o Escaped(s) \o << "\"" >>

RECURSIVE JsonList(_)
JsonList(ps) ==
    IF ps = << >> THEN << >>
    ELSE JsonString(Head(ps))
         \o (IF Tail(ps) = << >> THEN << >> ELSE << ", " >>) \o JsonList(Tail(ps))

\* json.dumps(unstructure(RpcRequest(method, params)))
Dumps(method, params) ==
    << "{\"method\": " >> \o JsonString(method) \o << ", \"params\": [" >>
        \o JsonList(params) \o << "]}" >>

\* a call_mod without the test of line 229
RejectedNever(doc) == FALSE

\* "'" in serialized_request
Rejected(doc) == \E i \in DOMAIN doc : doc[i] = "'"

\* cattrs.converters.is_optional
_is_optional(rt) == rt = "Optional"

\* a test of line 244 that lets every return type take a null
NullPermittedAlways(rt) == TRUE

\* the test of lines 245-249, negated: None is valid as the result
NullPermitted(rt) == rt = "None" \/ rt = "NoneType" \/ _is_optional(rt)

\* _converter.structure(json_response, RpcResponse[return_type]) raises: the
\* result is not a value of the declared type (strict: whether cattrs objects
\* to a value where the declared type is None)
StructureRaises(rt, env, strict) ==
    env.result = "misfit" /\ (rt \notin {"None", "NoneType"} \/ strict)

\* call_mod from json.loads on: the reply env, which answers the request of
\* slot b, under return type rt
Parsed(rt, env, b, strict) ==
    IF StructureRaises(rt, env, strict) THEN Outcome("ClassValidationError", 0, "")
    ELSE IF env.error THEN Outcome("RpcException", 0, "Received error")
    ELSE IF env.result = "null"
      THEN IF ~NullPermitted(rt)
             THEN Outcome("RpcException", 0, "Unexpected None result")
             ELSE Outcome("returned", 0, "")
    ELSE Outcome("returned", b, "")

\* call_mod up to the await of send_command, or up to its raise
Begin(s, rt, doc) ==
    /\ ncalls < MaxCalls
    /\ ncalls' = ncalls + 1
    /\ mlast' = Began(s, doc)
    /\ IF Rejected(doc)
         THEN /\ mpc' = [mpc EXCEPT ![s] = "done"]
              /\ mout' = [mout EXCEPT ![s] = Outcome("NotImplementedError", 0, "")]
              /\ UNCHANGED return_type
              /\ UNCHANGED vars
         ELSE /\ mpc' = [mpc EXCEPT ![s] = "sent"]
              /\ mout' = [mout EXCEPT ![s] = NoOutcome]
              /\ return_type' = [return_type EXCEPT ![s] = rt]
              /\ pc[s] = "idle"
              /\ writer # 0 /\ conn[writer] = "open"
              /\ Awaiting(s, SERVERDATA_EXECCOMMAND)
              /\ srv' = [srv EXCEPT ![writer] = @ \cup {Work(next_id, SERVERDATA_EXECCOMMAND, s)}]
              /\ UNCHANGED << writer, reader, cur, conn, rtask, pwOk, ctl, authed,
                              nconn, nsends, nbursts >>

\* a task calls call_mod(rt, method, params); the calls a gather has made
\* tasks for are counted as begun
CallMod(s, rt, method, params) ==
    /\ mpc[s] \in {"idle", "done"}
    /\ gpc = "gather" => s > Len(entities)
    /\ ncalls + Cardinality({r \in DOMAIN entities : mpc[r] = "created"}) < MaxCalls
    /\ Begin(s, rt, Dumps(method, params))
    /\ UNCHANGED << entities, gpc, gout >>
    /\ UNCHANGED beyond_mod

\* the task gather made for the call_mod of entity s runs: tasks start in the
\* order they were made. Of the entity, its name is modelled.
TaskBegins(s) ==
    /\ gpc = "gather"
    /\ s \in DOMAIN entities /\ mpc[s] = "created"
    /\ \A r \in DOMAIN entities : r < s => mpc[r] # "created"
    /\ Begin(s, "Optional", Dumps(<< "create_entity" >>, << entities[s] >>))
    /\ UNCHANGED << entities, gpc, gout >>
    /\ UNCHANGED beyond_mod

\* send_command returns or raises, and call_mod runs to its end; env is the
\* document in the body of the packet send_command returned
Resume(s, env, strict) ==
    /\ mpc[s] = "sent"
    /\ Woken(s)
    /\ LET o == Checked(s, Finished(s)) IN
       IF o.kind = "result"
         THEN /\ mlast' = Ended(s, return_type[s], env)
              /\ mout' = [mout EXCEPT ![s] = Parsed(return_type[s], env, o.pkt.body, strict)]
         ELSE /\ mlast' = NoEvent
              /\ mout' = [mout EXCEPT ![s] = Outcome(o.kind, 0, "")]
    /\ mpc' = [mpc EXCEPT ![s] = "done"]
    /\ return_type' = [return_type EXCEPT ![s] = "None"]
    /\ UNCHANGED << entities, gpc, gout, ncalls >>
    /\ UNCHANGED beyond_mod

\* how create_entities ended
Gathered(k, l) == [kind |-> k, list |-> l]

\* isinstance(r, Exception)
IsException(o) == o.kind # "returned"

\* a create_entities that leaves the None results out
ResultsWithoutNone(rs) ==
    LET kept == SelectSeq(rs, LAMBDA o : ~IsException(o) /\ o.value # 0)
    IN [i \in 1..Len(kept) |-> kept[i].value]

\* the loop of lines 294-298 on rpc_results: the values that are no exceptions
Results(rs) ==
    LET kept == SelectSeq(rs, LAMBDA o : ~IsException(o))
    IN [i \in 1..Len(kept) |-> kept[i].value]

\* a create_entities that raises only when no call succeeded
AbortsWhenAllFailed(rs) == \A i \in DOMAIN rs : IsException(rs[i])

\* if errors: some call of the batch raised
Aborts(rs) == \E i \in DOMAIN rs : IsException(rs[i])

\* create_entities after the gather, on rpc_results
Collected(rs) ==
    IF Aborts(rs) THEN Gathered("Exception", << >>) ELSE Gathered("returned", Results(rs))

\* create_entities(es) up to the await of gather; a gather of nothing is
\* done at once
CreateEntities(es) ==
    /\ gpc \in {"idle", "done"}
    /\ \A s \in DOMAIN es : mpc[s] \in {"idle", "done"}
    /\ ncalls + Len(es) <= MaxCalls
    /\ entities' = es
    /\ mpc' = [s \in Senders |-> IF s \in DOMAIN es THEN "created" ELSE mpc[s]]
    /\ mout' = [s \in Senders |-> IF s \in DOMAIN es THEN NoOutcome ELSE mout[s]]
    /\ IF es = << >>
         THEN gpc' = "done" /\ gout' = Collected(<< >>)
         ELSE gpc' = "gather" /\ gout' = Gathered("none", << >>)
    /\ mlast' = NoEvent
    /\ UNCHANGED << return_type, ncalls >>
    /\ UNCHANGED vars
    /\ UNCHANGED beyond_mod

\* a gather without return_exceptions: it ends with the first exception
FirstException ==
    \/ \A s \in DOMAIN entities : mpc[s] = "done"
    \/ \E s \in DOMAIN entities : mpc[s] = "done" /\ IsException(mout[s])

\* asyncio.gather(..., return_exceptions=True) ends when every task has ended
AllDone == \A s \in DOMAIN entities : mpc[s] = "done"

\* every task of the gather is done: create_entities runs to its end
GatherDone ==
    /\ gpc = "gather"
    /\ AllDone
    /\ gout' = Collected([s \in DOMAIN entities |-> mout[s]])
    /\ gpc' = "done"
    /\ mlast' = NoEvent
    /\ UNCHANGED << mpc, return_type, mout, entities, ncalls >>
    /\ UNCHANGED vars
    /\ UNCHANGED beyond_mod

\* the client of a World: connected, authenticated, and used once, for the
\* tick query that gave the World its initial tick
ClientInUse ==
    /\ next_id = 2
    /\ writer = 1
    /\ reader = 1
    /\ cur = 1
    /\ maps = [g \in Gens |-> EmptyMap]
    /\ conn = [k \in Conns |-> IF k = 1 THEN "open" ELSE "none"]
    /\ rtask = [k \in Conns |-> IF k = 1 THEN [st |-> "running", map |-> 1]
                                         ELSE [st |-> "none", map |-> 0]]
    /\ srv = [k \in Conns |-> {}]
    /\ pwOk = TRUE
    /\ ctl = "idle"
    /\ pc = [s \in Slots |-> "idle"]
    /\ rid = [s \in Slots |-> 0]
    /\ rmap = [s \in Slots |-> 0]
    /\ fut = [s \in Slots |-> FutPending]
    /\ mustCancel = [s \in Slots |-> FALSE]
    /\ timer = {}
    /\ last = Call(1, 1, 1, Returned(_Packet(1, SERVERDATA_RESPONSE_VALUE, 1)))
    /\ authed = {1}
    /\ nconn = 1
    /\ nsends = 1
    /\ nbursts = 0

ModInit ==
    /\ ClientInUse
    /\ ModUnused
    /\ EvaluatorUnused
    /\ CodecUnused
    /\ StreamUnused
    /\ ServerUnused /\ pytest = FALSE
    /\ SaveUnused
    /\ WorldCreated(0)

ModNext ==
    \/ \E s \in Senders, rt \in ReturnTypes, method \in Strings, params \in Params :
          CallMod(s, rt, method, params)
    \/ \E es \in Batches : CreateEntities(es)
    \/ \E s \in Senders : TaskBegins(s)
    \/ \E s \in Senders, env \in Envelopes, strict \in BOOLEAN : Resume(s, env, strict)
    \/ GatherDone
    \/ \E s \in Senders : TimeoutCancel(s)
    \/ \E k \in Conns : \E w \in srv[k] : ReadAnswer(k, w)

ModSpec == ModInit /\ [][ModNext]_<< vars, mod_vars >>

\* ====================================================================
\* _write_packet and _read_packet of rcon.py: the frames on one stream, which
\* delivers the bytes to the reader in pieces of any size.
beyond_frame == << vars, server_vars, save_vars, world_vars, mod_vars, eval_vars, codec_vars >>

MaxFrames == 2       \* packets written to the stream
MaxBody == 1         \* characters of a packet body

\* the characters of a body, by code point: one, two and three bytes of UTF-8
CodePoints == {97, 233, 8364}
Bodies == UNION {[1..n -> CodePoints] : n \in 0..MaxBody}
PacketIds == {AUTH_FAILURE_ID, 0, 258, MAX_32_BIT_SIGNED_INT}
PacketTypes == {SERVERDATA_RESPONSE_VALUE, SERVERDATA_EXECCOMMAND, SERVERDATA_AUTH}
Packets == {_Packet(i, ty, b) : i \in PacketIds, ty \in PacketTypes, b \in Bodies}

\* struct.pack("<i", n): four bytes, least significant first, two's complement
Pack(n) ==
    << n % 256, (n \div 256) % 256, (n \div 65536) % 256, (n \div 16777216) % 256 >>

\* struct.unpack("<i", b)
Unpack(b) ==
    b[1] + 256 * b[2] + 65536 * b[3]
        + 16777216 * (IF b[4] >= 128 THEN b[4] - 256 ELSE b[4])

\* str.encode("utf8")
RECURSIVE Encode(_)
Encode(s) ==
    IF s = << >> THEN << >>
    ELSE LET c == Head(s) IN
         (IF c < 128 THEN << c >>
          ELSE IF c < 2048 THEN << 192 + (c \div 64), 128 + (c % 64) >>
          ELSE << 224 + (c \div 4096), 128 + ((c \div 64) % 64), 128 + (c % 64) >>)
         \o Encode(Tail(s))

\* whether b is UTF-8: bytes.decode raises UnicodeDecodeError on other bytes
RECURSIVE Valid(_)
Valid(b) ==
    LET Cont(i) == i <= Len(b) /\ b[i] >= 128 /\ b[i] < 192 IN
    IF b = << >> THEN TRUE
    ELSE IF b[1] < 128 THEN Valid(SubSeq(b, 2, Len(b)))
    ELSE IF b[1] >= 194 /\ b[1] < 224 THEN Cont(2) /\ Valid(SubSeq(b, 3, Len(b)))
    ELSE IF b[1] >= 224 /\ b[1] < 240 THEN Cont(2) /\ Cont(3) /\ Valid(SubSeq(b, 4, Len(b)))
    ELSE FALSE

\* the reader after an exception left _read_packet: it reads nothing more
Stopped == [pkt_size |-> -1, pkt_id |-> 0, pkt_type |-> 0]

\* bytes.decode("utf-8"), on bytes that are valid UTF-8
RECURSIVE Decode(_)
Decode(b) ==
    IF b = << >> THEN << >>
    ELSE IF b[1] < 128 THEN << b[1] >> \o Decode(SubSeq(b, 2, Len(b)))
    ELSE IF b[1] < 224
      THEN << (b[1] - 192) * 64 + (b[2] - 128) >> \o Decode(SubSeq(b, 3, Len(b)))
    ELSE << (b[1] - 224) * 4096 + (b[2] - 128) * 64 + (b[3] - 128) >>
         \o Decode(SubSeq(b, 4, Len(b)))

\* packet_bytes of _write_packet
packet_bytes(pkt) == Pack(pkt.pkt_id) \o Pack(pkt.type) \o Encode(pkt.body) \o << 0, 0 >>

\* packet_with_size of _write_packet
packet_with_size(pkt) == Pack(Len(packet_bytes(pkt))) \o packet_bytes(pkt)

\* a reader that takes the size field for the number of bytes that follow the
\* header
len_to_read_all(pkt_size) == pkt_size

\* len_to_read of _read_packet
len_to_read(pkt_size) == pkt_size - 2 * 4

\* writer.write(packet_with_size)
_write_packet(pkt) ==
    /\ Len(written) < MaxFrames
    /\ wire' = wire \o packet_with_size(pkt)
    /\ written' = Append(written, pkt)
    /\ UNCHANGED << buf, hdr, received >>
    /\ UNCHANGED beyond_frame

\* the transport hands the reader the next bytes, any number of them
Deliver ==
    /\ \E n \in 1..Len(wire) :
          /\ buf' = buf \o SubSeq(wire, 1, n)
          /\ wire' = SubSeq(wire, n + 1, Len(wire))
    /\ UNCHANGED << hdr, written, received >>
    /\ UNCHANGED beyond_frame

\* _read_packet: readexactly(3 * 4) returns, and the header is unpacked
ReadHeader ==
    /\ hdr = NoHeader
    /\ Len(buf) >= 12
    /\ hdr' = [pkt_size |-> Unpack(SubSeq(buf, 1, 4)),
               pkt_id |-> Unpack(SubSeq(buf, 5, 8)),
               pkt_type |-> Unpack(SubSeq(buf, 9, 12))]
    /\ buf' = SubSeq(buf, 13, Len(buf))
    /\ UNCHANGED << wire, written, received >>
    /\ UNCHANGED beyond_frame

\* _read_packet: readexactly(len_to_read) returns, and the packet is returned
ReadRest ==
    /\ hdr # NoHeader /\ hdr # Stopped
    /\ Len(buf) >= len_to_read(hdr.pkt_size)
    /\ LET rest_bytes == SubSeq(buf, 1, len_to_read(hdr.pkt_size))
           body_bytes == SubSeq(rest_bytes, 1, Len(rest_bytes) - 2)
       IN IF Valid(body_bytes)
            THEN /\ received' = Append(received,
                                       _Packet(hdr.pkt_id, hdr.pkt_type, Decode(body_bytes)))
                 /\ hdr' = NoHeader
            ELSE /\ hdr' = Stopped
                 /\ UNCHANGED received
    /\ buf' = SubSeq(buf, len_to_read(hdr.pkt_size) + 1, Len(buf))
    /\ UNCHANGED << wire, written >>
    /\ UNCHANGED beyond_frame

FrameInit ==
    /\ StreamUnused
    /\ ClientUnused
    /\ ServerUnused /\ pytest = FALSE
    /\ SaveUnused
    /\ ModUnused
    /\ EvaluatorUnused
    /\ CodecUnused
    /\ WorldCreated(0)

FrameNext ==
    \/ \E pkt \in Packets : _write_packet(pkt)
    \/ Deliver
    \/ ReadHeader
    \/ ReadRest

FrameSpec == FrameInit /\ [][FrameNext]_frame_vars

\* ====================================================================
\* Evaluator.create_world and Evaluator.aclose of evaluator.py, used by one
\* task, with create_server and FactorioServer.aclose of factorio_server.py
\* as far as they spawn, signal and wait for server processes.
beyond_eval == << vars, server_vars, save_vars, world_vars, mod_vars, frame_vars, codec_vars >>

\* the process is running, or was killed and has not terminated yet
Live(p) == procs[p] \in {"running", "signalled"}

\* the process spawned last
Child == CHOOSE p \in Pids : procs[p] # "none" /\ \A q \in Pids : q > p => procs[q] = "none"

\* a create_world that never closes the server it has
MustCloseNever(d) == FALSE

\* if self.deterministic: await self.aclose()
MustClose(d) == d

\* create_world ends: it returns ("ok") or raises e
Raises(e) == epc' = "idle" /\ elast' = e

\* op ("world": create_world, "aclose": the user's aclose) raises e; after its
\* aclose the Evaluator is not used again
Aborted(op, e) == epc' = (IF op = "world" THEN "idle" ELSE "closed") /\ elast' = e

\* a handle whose delete_tmpdir cannot be changed
PreservedNot(fl, p) == fl

\* delete_tmpdir = False on the handle of process p
Preserved(fl, p) == [fl EXCEPT ![p] = FALSE]

\* FactorioServer.aclose after rcon.aclose: process.kill(), which raises when
\* the loop has seen the process exit; raised: whether rcon.aclose raised
Kill(op, raised) ==
    IF procs[server] = "gone"
      THEN /\ Aborted(op, "ProcessLookupError")
           /\ delete_of' = Preserved(delete_of, server)
           /\ UNCHANGED procs
      ELSE /\ procs' = [procs EXCEPT ![server] = IF @ = "running" THEN "signalled" ELSE @]
           /\ IF raised THEN Aborted(op, "ConnectionResetError")
                        ELSE epc' = op \o "_wait" /\ UNCHANGED elast
           /\ UNCHANGED delete_of

\* if self.delete_tmpdir: shutil.rmtree(self.tmpdir), on the directories ds
Removed(ds, p) == IF delete_of[p] THEN ds \ {p} ELSE ds

\* if self.server is None: create_server(...); then destroy_all_entities
\* (sv: self.server)
Acquire(sv) ==
    IF sv = 0 THEN epc' = "launching" /\ launches' = 0
                   ELSE epc' = "setup" /\ UNCHANGED launches

\* create_world up to its first await
CreateWorld ==
    /\ epc = "idle" /\ nworlds < MaxWorlds
    /\ nworlds' = nworlds + 1
    /\ prev' = server
    /\ IF MustClose(deterministic) /\ server # 0
         THEN epc' = "world_rcon" /\ UNCHANGED launches
         ELSE Acquire(server)
    /\ UNCHANGED << deterministic, server, procs, elast >>
    /\ UNCHANGED << delete_of, tmpdirs >>
    /\ UNCHANGED beyond_eval

\* aclose() of the Evaluator, by its user: the Evaluator is not used afterwards
Aclose ==
    /\ epc = "idle"
    /\ IF server # 0 THEN epc' = "aclose_rcon" /\ UNCHANGED elast
                     ELSE epc' = "closed" /\ elast' = "ok"
    /\ UNCHANGED << deterministic, server, procs, launches, prev, nworlds >>
    /\ UNCHANGED << delete_of, tmpdirs >>
    /\ UNCHANGED beyond_eval

\* server.aclose(): rcon.aclose() returned or raised, and the process is killed
ServerKill(op, raised) ==
    /\ epc = op \o "_rcon"
    /\ Kill(op, raised)
    /\ UNCHANGED << deterministic, server, launches, prev, nworlds >>
    /\ UNCHANGED tmpdirs
    /\ UNCHANGED beyond_eval

\* server.aclose(): process.wait() returns; self.server = None, and
\* create_world goes on
ServerWaited(op) ==
    /\ epc = op \o "_wait"
    /\ procs[server] \in {"gone", "exited"}
    /\ server' = 0
    /\ IF op = "world" THEN Acquire(0) /\ UNCHANGED elast
                       ELSE epc' = "closed" /\ elast' = "ok" /\ UNCHANGED launches
    /\ UNCHANGED << deterministic, procs, prev, nworlds >>
    /\ tmpdirs' = Removed(tmpdirs, server)
    /\ UNCHANGED delete_of
    /\ UNCHANGED beyond_eval

\* create_server: _try_create_server spawns the server process
Spawn ==
    /\ epc = "launching" /\ launches < LaunchAttempts
    /\ \E p \in Pids :
          /\ procs[p] = "none" /\ \A q \in Pids : q < p => procs[q] # "none"
          /\ procs' = [procs EXCEPT ![p] = "running"]
    /\ launches' = launches + 1
    /\ epc' = "spawned"
    /\ UNCHANGED << deterministic, server, prev, elast, nworlds >>
    /\ tmpdirs' = tmpdirs \cup {p \in Pids : procs'[p] # "none" /\ procs[p] = "none"}
    /\ UNCHANGED delete_of
    /\ UNCHANGED beyond_eval

\* _try_create_server raises before it spawned a process
SpawnFails ==
    /\ epc = "launching" /\ launches < LaunchAttempts
    /\ Raises("OSError")
    /\ UNCHANGED << deterministic, server, procs, launches, prev, nworlds >>
    /\ UNCHANGED << delete_of, tmpdirs >>
    /\ UNCHANGED beyond_eval

\* create_server returns the handle: self.server = ...
Launched ==
    /\ epc = "spawned"
    /\ procs[Child] \in {"running", "dead"}
    /\ server' = Child
    /\ epc' = "setup"
    /\ UNCHANGED << deterministic, procs, launches, prev, elast, nworlds >>
    /\ UNCHANGED << delete_of, tmpdirs >>
    /\ UNCHANGED beyond_eval

\* _try_create_server fails after the spawn: the child is killed and waited
\* for, and create_server tries again after an RCONAuthFailure, once
TryFails(e) ==
    /\ epc = "spawned"
    /\ procs' = [procs EXCEPT ![Child] = IF @ = "running" THEN "exited" ELSE "gone"]
    /\ IF e = "RCONAuthFailure" /\ launches < LaunchAttempts
         THEN epc' = "launching" /\ UNCHANGED elast
         ELSE Raises(e)
    /\ UNCHANGED << deterministic, server, launches, prev, nworlds >>
    /\ tmpdirs' = tmpdirs \ {Child}
    /\ UNCHANGED delete_of
    /\ UNCHANGED beyond_eval

\* the rest of create_world, from destroy_all_entities on, returns or raises
Setup(e) ==
    /\ epc = "setup"
    /\ Raises(e)
    /\ UNCHANGED << deterministic, server, procs, launches, prev, nworlds >>
    /\ UNCHANGED << delete_of, tmpdirs >>
    /\ UNCHANGED beyond_eval

\* a server process terminates on its own
Crash(p) ==
    /\ procs[p] = "running"
    /\ procs' = [procs EXCEPT ![p] = "dead"]
    /\ UNCHANGED << deterministic, server, epc, launches, prev, elast, nworlds >>
    /\ UNCHANGED << delete_of, tmpdirs >>
    /\ UNCHANGED beyond_eval

\* a killed process terminates, or the loop sees that a process terminated
Reaped(p) ==
    /\ procs[p] \in {"signalled", "dead"}
    /\ procs' = [procs EXCEPT ![p] = IF @ = "signalled" THEN "exited" ELSE "gone"]
    /\ UNCHANGED << deterministic, server, epc, launches, prev, elast, nworlds >>
    /\ UNCHANGED << delete_of, tmpdirs >>
    /\ UNCHANGED beyond_eval

\* create_entities returned a list with a None in it: the handle is told to
\* keep its directory, and save_world writes debug.zip into it
EntityMissing ==
    /\ epc = "setup"
    /\ delete_of' = Preserved(delete_of, server)
    /\ epc' = "debug_save"
    /\ UNCHANGED << deterministic, server, procs, launches, prev, elast, nworlds, tmpdirs >>
    /\ UNCHANGED beyond_eval

\* save_world raises e, or returns and the assertion on created_result fails
DebugSaved(e) ==
    /\ epc = "debug_save"
    /\ Raises(e)
    /\ UNCHANGED << deterministic, server, procs, launches, prev, nworlds, delete_of,
                    tmpdirs >>
    /\ UNCHANGED beyond_eval

EvalInit ==
    /\ \E d \in BOOLEAN : EvaluatorCreated(d)
    /\ CodecUnused
    /\ ClientUnused
    /\ ServerUnused /\ pytest = FALSE
    /\ SaveUnused
    /\ ModUnused
    /\ StreamUnused
    /\ WorldCreated(0)

EvalNext ==
    \/ CreateWorld
    \/ Aclose
    \/ \E op \in {"world", "aclose"}, raised \in BOOLEAN : ServerKill(op, raised)
    \/ \E op \in {"world", "aclose"} : ServerWaited(op)
    \/ Spawn
    \/ SpawnFails
    \/ Launched
    \/ \E e \in {"RCONAuthFailure", "TimeoutError"} : TryFails(e)
    \/ \E e \in {"ok", "AssertionError", "RpcException"} : Setup(e)
    \/ EntityMissing
    \/ \E e \in {"AssertionError", "TimeoutError", "Exception"} : DebugSaved(e)
    \/ \E p \in Pids : Crash(p)
    \/ \E p \in Pids : Reaped(p)

EvalSpec == EvalInit /\ [][EvalNext]_eval_vars

\* ====================================================================
\* encode_entity and decode_entity of encoding.py, on Python integers.
beyond_codec == << vars, server_vars, save_vars, world_vars, mod_vars, frame_vars,
                  eval_vars >>

ENTITY_TYPES == << "fast-transport-belt", "stone-wall", "fle-void-fast-inserter",
                   "steel-chest" >>

DIRECTIONS == << "north", "east", "south", "west" >>

\* the names and directions the functions are tried on: the encodable ones,
\* and one of each that is not
Names == {ENTITY_TYPES[i] : i \in DOMAIN ENTITY_TYPES} \cup {"iron-chest"}
Directions == {DIRECTIONS[i] : i \in DOMAIN DIRECTIONS} \cup {"northeast"}

\* list.index(x) for an x that is in the list
Index(l, x) == (CHOOSE i \in DOMAIN l : l[i] = x) - 1

\* l[i] raises IndexError unless -len(l) <= i < len(l)
InRange(l, i) == 0 - Len(l) <= i /\ i < Len(l)

\* l[i] of a Python list: a negative index counts from the end
Item(l, i) == IF i >= 0 THEN l[i + 1] ELSE l[Len(l) + i + 1]

encode_entity(e) ==
    IF \A i \in DOMAIN ENTITY_TYPES : ENTITY_TYPES[i] # e.name
      THEN Coded("AssertionError", e, 0)
    ELSE IF \A i \in DOMAIN DIRECTIONS : DIRECTIONS[i] # e.direction
      THEN Coded("AssertionError", e, 0)
    ELSE Coded("value", e,
               Index(ENTITY_TYPES, e.name) * Len(DIRECTIONS)
                 + Index(DIRECTIONS, e.direction) + 1)

\* divmod(n - 1, len(DIRECTIONS)) rounds towards minus infinity, as \div does
decode_entity(n) ==
    LET type_index == (n - 1) \div Len(DIRECTIONS)
        direction_index == (n - 1) % Len(DIRECTIONS)
    IN  IF type_index < Len(ENTITY_TYPES)
          THEN IF InRange(ENTITY_TYPES, type_index)
                 THEN Coded("value",
                            EntityNameAndDirection(Item(ENTITY_TYPES, type_index),
                                                   Item(DIRECTIONS, direction_index)), n)
                 ELSE Coded("IndexError", EntityNameAndDirection("", ""), n)
          ELSE Coded("None", EntityNameAndDirection("", ""), n)

DecodeEntity(n) ==
    /\ num' = n
    /\ decoded' = decode_entity(n)
    /\ UNCHANGED << name_dir, encoded >>
    /\ UNCHANGED beyond_codec

EncodeEntity(e) ==
    /\ name_dir' = e
    /\ encoded' = encode_entity(e)
    /\ UNCHANGED << num, decoded >>
    /\ UNCHANGED beyond_codec

CodecInit ==
    /\ CodecUnused
    /\ ClientUnused
    /\ ServerUnused /\ pytest = FALSE
    /\ SaveUnused
    /\ ModUnused
    /\ StreamUnused
    /\ EvaluatorUnused
    /\ WorldCreated(0)

CodecNext ==
    \/ \E n \in (0 - MaxNum) .. MaxNum : DecodeEntity(n)
    \/ \E n \in Names, d \in Directions : EncodeEntity(EntityNameAndDirection(n, d))

CodecSpec == CodecInit /\ [][CodecNext]_codec_vars

\* ====================================================================
\* Claims
\* ====================================================================

\* the request of slot s is in progress: sent and not yet returned or raised
InProgress(s) == pc[s] = "await"

\* the request of slot s ends in this step
Ends(s) == pc[s] = "await" /\ pc'[s] = "idle"

\* the reader of connection k reads the server's next packet for w in this step
Reads(k, w) == rtask[k].st = "running" /\ w \in srv[k] /\ srv' = Answered(k, w)

\* C1  Multiplexing: whatever the order in which the responses arrive, a call
\* that returns a packet returns one that carries the id of its own request,
\* and a future is never resolved with a packet of another id.
C1_Multiplexing ==
    /\ last.kind = "result" => last.pkt.pkt_id = last.rid
    /\ \A s \in Slots :
        (InProgress(s) /\ fut[s].st = "result") => fut[s].pkt.pkt_id = rid[s]

\* two commands are outstanding on one connection and the one sent later has
\* just returned its own response while the earlier one still waits
C1_OutOfOrder ==
    /\ last.slot \in Senders /\ last.kind = "result" /\ last.pkt.body = last.slot
    /\ \E u \in Senders :
        /\ InProgress(u) /\ fut[u].st = "pending"
        /\ rmap[u] = last.map /\ rid[u] < last.rid

\* C2  Id uniqueness: no two requests in progress that registered in the same
\* pending map carry the same id, however long the sequence of sends.
C2_IdUniqueness ==
    \A s \in Slots : \A u \in Slots :
        (s # u /\ InProgress(s) /\ InProgress(u) /\ rmap[s] = rmap[u])
            => rid[s] # rid[u]

\* C3  Auth sentinel: when the reader reads an auth response with id -1 and
\* exactly one registered request is flagged is_auth, that request is resolved
\* with RCONAuthFailure, and no other future and no dict changes.
C3_AuthSentinel ==
    [][\A k \in Conns : \A w \in srv[k] :
        LET m == maps[rtask[k].map]
            auths == {i \in DOMAIN m : m[i].is_auth}
        IN  ( /\ Reads(k, w)
              /\ Answer(w).type = SERVERDATA_AUTH_RESPONSE
              /\ Answer(w).pkt_id = AUTH_FAILURE_ID
              /\ Cardinality(auths) = 1 )
            => \E i \in auths :
                 /\ fut'[m[i].slot].st = "RCONAuthFailure"
                 /\ \A s \in Slots \ {m[i].slot} : fut'[s] = fut[s]
                 /\ maps' = maps
      ]_vars

\* a connect whose auth packet was sent has just ended
ConnectAnswered ==
    /\ ctl = "idle" /\ last.slot = AuthSlot
    /\ last.kind \in {"result", "TimeoutError", "RCONAuthFailure", "KeyError", "AssertionError"}

\* C4 (as claimed)  A connect that reached a server which rejects the password
\* ends by raising RCONAuthFailure, whenever the id -1 response arrives.
C4_AlwaysAuthFailure ==
    (~pwOk /\ ConnectAnswered) => last.kind = "RCONAuthFailure"

\* the deadline of the request of slot s is armed, or the request is ready to
\* run again and end
ArmedOrReady(s) ==
    \/ s \in timer
    \/ InProgress(s) /\ (fut[s].st # "pending" \/ mustCancel[s])

\* C4 (amended)  A connect that reached a server which rejects the password
\* never returns success and never waits forever: while it waits its deadline
\* is armed or it is ready to end, and it ends by raising RCONAuthFailure, or
\* a timeout error when the deadline comes first.
C4_AuthFailureOrTimeout ==
    ~pwOk =>
        /\ ctl = "auth" => ArmedOrReady(AuthSlot)
        /\ ConnectAnswered => last.kind \in {"RCONAuthFailure", "TimeoutError"}

\* a connect against a rejecting server has ended with a timeout error while
\* the server's id -1 response is still on its way
C4_TimedOutBeforeRejection ==
    /\ ~pwOk /\ ConnectAnswered
    /\ last.kind = "TimeoutError"
    /\ writer # 0
    /\ \E w \in srv[writer] : w.type = SERVERDATA_AUTH /\ w.stage = 1

\* C5  Deregistration on every exit: a dict holds entries of requests in
\* progress only, each under its own id in the dict it registered in; the id
\* of a call that has just ended is not a key of its dict; and a send whose
\* deadline fired ends with an error.
NoStaleEntry ==
    \A g \in Gens : \A i \in DOMAIN maps[g] :
        LET s == maps[g][i].slot IN InProgress(s) /\ rid[s] = i /\ rmap[s] = g

C5_Deregistered ==
    /\ []NoStaleEntry
    /\ [][last'.kind # "none" => last'.rid \notin DOMAIN maps'[last'.map]]_vars
    /\ [][\A s \in Slots :
            (Ends(s) /\ (fut[s].st = "cancelled" \/ mustCancel[s]))
                => last'.slot = s /\ last'.kind \in {"TimeoutError", "KeyError"}
        ]_vars

\* a send has timed out and its id is gone from the dict it registered in,
\* while that dict still holds the entry of another request
C5_TimedOutAndGone ==
    /\ last.slot \in Senders /\ last.kind = "TimeoutError"
    /\ last.rid \notin DOMAIN maps[last.map]
    /\ maps[last.map] # EmptyMap

\* C6  Unknown and late responses are harmless: a packet whose id is not a key
\* of the dict - an id -1 auth failure with no auth request registered any more
\* included - is dropped: the reader stays running and nothing else changes.
UnknownTo(k, p) ==
    LET m == maps[rtask[k].map] IN
    /\ p.pkt_id \notin DOMAIN m
    /\ \A i \in DOMAIN m : ~m[i].is_auth

C6_UnknownIsDropped ==
    [][\A k \in Conns : \A w \in srv[k] :
        (Reads(k, w) /\ UnknownTo(k, Answer(w)))
            => rtask'[k].st = "running" /\ fut' = fut /\ maps' = maps
      ]_vars

\* C7  Timeout/resolution race: the reader never fails on the future of a
\* request whose deadline has fired; the second write to the slot is a no-op.
C7_ReaderSurvivesRace ==
    \A k \in Conns : rtask[k].st # "InvalidStateError"

\* C8  close() releases every waiter: the step of aclose that replaces the
\* dict resolves the future of every request registered in it.
C8_CloseResolvesPending ==
    [][cur' # cur
        => \A s \in Slots : (InProgress(s) /\ rmap[s] = cur) => fut'[s].st # "pending"
      ]_vars

\* C9  Failed connect leaves the client closed: when connect raises, the
\* client holds no stream, no running reader task and no pending request.
C9_FailedConnectIsClosed ==
    [][(ctl \in {"opening", "auth"} /\ ctl' = "idle" /\ last'.kind # "result")
        => /\ writer' = 0 /\ reader' = 0
           /\ \A k \in Conns : rtask'[k].st # "running"
           /\ maps'[cur'] = EmptyMap
      ]_vars

\* C10  The connect deadline covers the whole operation: while connect is in
\* progress its deadline is armed, or has fired and connect is about to raise.
C10_DeadlineCoversConnect ==
    ctl \in {"connect_aclose", "opening", "auth"} => ArmedOrReady(AuthSlot)

\* --------------------------------------------------------------------
\* the step in which _try_create_server number a raises
AttemptFails(a) == tried[a] = "none" /\ tried'[a] # "none"

\* C11: create_server calls _try_create_server at most twice; the second call
\* is made exactly when the first raised RCONAuthFailure, and it makes its own
\* directory and takes its own ports; any other exception ends create_server
\* with that exception at once; two RCONAuthFailures end it with the
\* "ran out of launch attempts" exception.
C11_RetryPolicy ==
    /\ [](/\ attempt <= LaunchAttempts
          /\ attempt > 1 => tried[1] = "RCONAuthFailure"
          /\ (attempt = 1 /\ tried[1] = "RCONAuthFailure")
                => (lpc = "start" /\ outcome = "none")
          /\ \A a \in Attempts : tried[a] \notin {"none", "RCONAuthFailure"}
                => (outcome = tried[a] /\ attempt = a /\ lpc = "done")
          /\ (\A a \in Attempts : tried[a] = "RCONAuthFailure")
                => outcome = "LaunchExhausted")
    /\ [][(attempt' # attempt /\ lpc' = "write")
            => (/\ tmpdir' \notin dirs /\ tmpdir' \in dirs'
                /\ port' = 0 /\ rcon_port' = 0)]_server_vars
    /\ [][\A a \in Attempts : (proc[a] = "none" /\ proc'[a] # "none")
            => (/\ a = attempt /\ tmpdir \in dirs
                /\ port = 0 /\ port' \in Ports
                /\ rcon_port = 0 /\ rcon_port' \in Ports)]_server_vars

\* the retry after an auth failure ended with a server
C11_RetrySucceeded ==
    /\ attempt = 2 /\ tried[1] = "RCONAuthFailure"
    /\ outcome = "server" /\ tmpdir \in dirs

\* C12: when a launch attempt raises after its directory was made, the
\* directory is gone in the state in which the exception is reported, for
\* each attempt; a create_server that failed leaves no directory.
C12_DirectoryRemoved ==
    /\ [][\A a \in Attempts : (AttemptFails(a) /\ lpc \notin {"idle", "start"})
            => (tmpdir \in dirs /\ tmpdir \notin dirs')]_server_vars
    /\ [](outcome \notin {"none", "server"} => dirs = {})

\* both attempts made a directory, both failed, nothing is left
C12_ExhaustedAndClean == outcome = "LaunchExhausted" /\ dirs = {}

\* C13: when a launch attempt raises after the child was started, the child
\* has terminated in the state in which the exception is reported.
C13_NoOrphan ==
    /\ [][\A a \in Attempts : (AttemptFails(a) /\ proc[a] # "none")
            => proc'[a] \in {"dead", "gone", "exited"}]_server_vars
    /\ [](outcome \notin {"none", "server"}
            => \A a \in Attempts : proc[a] = "none" \/ Exited(a))

\* the tick query timed out, the child was killed and waited for
C13_KilledAfterTimeout ==
    /\ outcome = "TimeoutError" /\ client[1] = "authed" /\ proc[1] = "exited"

C15_GoneIsSurfaced ==
    [][(hpc = "rcon_aclose" /\ hpc' # hpc /\ Exited(attempt))
         => (/\ ~delete_tmpdir' /\ closed' = "ProcessLookupError"
             /\ tmpdir \in dirs')]_server_vars

\* --------------------------------------------------------------------
\* a whole marker line among the lines after the first n of the log
MarkerAfter(n) ==
    \E i \in (n + 1)..Len(log) : SavingFinished(log[i]) /\ EndsWithNewline(log[i])

\* the step in which the wait of call s ends, by the marker or by the deadline
WaitEnds(s) == spc[s] = "tail" /\ spc'[s] # "tail"

\* C16: if no whole marker line was written to the log after the save command
\* of a call was issued, the wait of that call ends with the timeout
\* exception, and the step changes neither a destination nor an artifact.
C16_TimeoutWithoutMarker ==
    [][\A s \in Saves : (WaitEnds(s) /\ ~MarkerAfter(issuedAt[s]))
         => (/\ result'[s] = "SaveTimeout"
             /\ dest' = dest /\ artifact' = artifact)]_save_vars

\* C17: the marker line that ends the wait of a call was not in the log when
\* the call's save command was issued, and a call returns only if a whole
\* marker line was written after the position it recorded.
C17_OnlyNewMarkers ==
    /\ [][\A s \in Saves : (WaitEnds(s) /\ spc'[s] = "copy")
            => pos'[s] > issuedAt[s]]_save_vars
    /\ [](\A s \in Saves : result[s] = "ok" => MarkerAfter(start[s]))

\* C18: a save_world that returned left the artifact in the destination and
\* none in the saves folder; the artifact is removed only when the
\* destination holds it, and a copy that fails leaves it where it is.
C18_CopyThenDelete ==
    /\ [](\A s \in Saves : result[s] = "ok" => (dest[s] /\ ~artifact[s]))
    /\ [][\A s \in Saves : (artifact[s] /\ ~artifact'[s]) => dest[s]]_save_vars
    /\ [][\A s \in Saves : (spc[s] = "copy" /\ result'[s] # "none")
            => (artifact'[s] = artifact[s] /\ dest'[s] = dest[s])]_save_vars

\* one call returned, the copy of the other failed and its artifact is there
C18_MovedAndFailedCopy ==
    /\ result[1] = "ok" /\ dest[1] /\ ~artifact[1]
    /\ result[2] = "OSError" /\ artifact[2] /\ ~dest[2]

\* --------------------------------------------------------------------
\* C19: in every state of a World _cur_tick <= _cur_target_tick, and after a
\* step() that returned the two are equal.
C19_TickInvariant ==
    /\ _cur_tick <= _cur_target_tick
    /\ (wpc = "idle" /\ wlast = "ok") => _cur_tick = _cur_target_tick

\* C20: get_current_tick() is 0 after the World is made, and after step()
\* calls made one after the other that all returned it is the sum of their
\* arguments.
C20_TickAccounting ==
    (wpc = "idle" /\ ~failed) => get_current_tick = total

\* three steps returned on a save that was not loaded at tick 0
C20_ThreeSteps ==
    /\ wpc = "idle" /\ ~failed /\ nsteps = 3
    /\ _initial_tick > 0 /\ total > 2 /\ get_current_tick = total

\* --------------------------------------------------------------------
\* C21: a tick poll of step() that reads a tick above the target ends the
\* call with the assertion failure: step() neither goes on polling nor
\* returns normally.
C21_OvershootIsFatal ==
    [][(wpc = "poll" /\ _cur_tick' > _cur_target_tick)
        => (wpc' = "idle" /\ wlast' = "AssertionError" /\ failed')]_world_vars

\* the first step, of a positive number of ticks, failed on an overshot poll
C21_OvershootRaised ==
    /\ wpc = "idle" /\ wlast = "AssertionError"
    /\ nsteps = 1 /\ num_ticks > 0
    /\ _cur_tick > _cur_target_tick

\* --------------------------------------------------------------------
\* C22: a call_mod whose serialized {method, params} document contains a
\* single quote raises (NotImplementedError) and sends nothing: the id
\* counter, the pending requests, what the server received and the rest of
\* the client are as they were.
C22_QuoteRejectedBeforeSend ==
    [][(ncalls' # ncalls /\ \E i \in DOMAIN mlast'.doc : mlast'.doc[i] = "'")
        => /\ mpc'[mlast'.slot] = "done"
           /\ mout'[mlast'.slot].kind = "NotImplementedError"
           /\ next_id' = next_id /\ maps' = maps /\ srv' = srv
           /\ UNCHANGED vars]_<< vars, mod_vars >>

\* a call whose parameter is a single quote was rejected while the request of
\* another call was pending
C22_RejectedWhilePending ==
    /\ mlast = Began(2, Dumps(<< "a" >>, << << "'" >> >>))
    /\ mout[2].kind = "NotImplementedError"
    /\ pc[1] = "await" /\ pc[2] = "idle"
    /\ next_id = 3

\* --------------------------------------------------------------------
\* C23: a call_mod that gets a reply whose error is populated raises
\* RpcException ("Received error"), under every return type and whatever the
\* result field of the reply holds.
C23_ErrorAlwaysRaised ==
    [][\A s \in Senders :
        (mpc[s] = "sent" /\ mpc'[s] = "done" /\ mlast' = Ended(s, return_type[s], mlast'.env)
            /\ mlast'.env.error)
        => (mout'[s].kind = "RpcException" /\ mout'[s].message = "Received error")
      ]_<< vars, mod_vars >>

C25_ResultShape ==
    /\ []((gpc = "done" /\ entities = << >>) => gout = Gathered("returned", << >>))
    /\ [][(gpc = "gather" /\ gpc' = "done"
            /\ \A i \in DOMAIN entities : mout[i].kind = "returned")
          => /\ gout'.kind = "returned"
             /\ Len(gout'.list) = Len(entities)
             /\ \A i \in DOMAIN entities :
                   gout'.list[i] = mout[i].value /\ gout'.list[i] \in {0, i}
         ]_<< vars, mod_vars >>

\* two entities, the first collided, and its reply came after the second's
C25_LateCollision ==
    /\ gpc = "done" /\ Len(entities) = 2
    /\ gout = Gathered("returned", << 0, 2 >>)
    /\ last.slot = 1

\* --------------------------------------------------------------------
\* C26: a create_entities one of whose calls raised raises, and returns no
\* list, neither a partial nor a shortened one.
C26_BatchAborts ==
    [][(gpc = "gather" /\ gpc' = "done"
         /\ \E i \in DOMAIN entities : mout[i].kind # "returned")
       => gout' = Gathered("Exception", << >>)
      ]_<< vars, mod_vars >>

\* the first call returned an entity, the second timed out
C26_OneOfTwoFailed ==
    /\ gpc = "done" /\ Len(entities) = 2
    /\ mout[1] = Outcome("returned", 1, "")
    /\ mout[2].kind = "TimeoutError"
    /\ gout.kind = "Exception"

\* --------------------------------------------------------------------
\* the four bytes of a 32-bit integer, least significant first
LittleEndian(n) ==
    LET low == IF n >= 0 THEN n ELSE (n + MAX_32_BIT_SIGNED_INT) + 1
        b4 == (low \div 16777216) + (IF n >= 0 THEN 0 ELSE 128)
    IN << low % 256, (low \div 256) % 256, (low \div 65536) % 256, b4 >>

\* [length][id][type][body][two null bytes], length = 4 + 4 + len(body) + 2
Layout(p) ==
    LittleEndian(4 + 4 + Len(Encode(p.body)) + 2) \o LittleEndian(p.pkt_id)
        \o LittleEndian(p.type) \o Encode(p.body) \o << 0, 0 >>

\* the frames of the packets ps[k], ps[k + 1], ..., one after the other
RECURSIVE Frames(_, _)
Frames(ps, k) == IF k > Len(ps) THEN << >> ELSE Layout(ps[k]) \o Frames(ps, k + 1)

\* C27: the packets _read_packet returns are the packets given to
\* _write_packet, in order and equal field by field; between two packets the
\* unread bytes are exactly the frames of the packets not yet returned, each
\* laid out as [int32 length][int32 id][int32 type][body][0][0] with
\* length = 4 + 4 + len(body) + 2, however the stream cuts the bytes.
C27_FramingRoundTrip ==
    /\ Len(received) <= Len(written)
    /\ \A i \in 1..Len(received) : received[i] = written[i]
    /\ hdr # Stopped
    /\ hdr = NoHeader => buf \o wire = Frames(written, Len(received) + 1)

\* two packets written back to back were both read, and nothing is left over
C27_TwoFramesRead ==
    /\ received = << _Packet(AUTH_FAILURE_ID, SERVERDATA_EXECCOMMAND, << 8364 >>),
                     _Packet(258, SERVERDATA_RESPONSE_VALUE, << 233 >>) >>
    /\ written = received
    /\ wire = << >> /\ buf = << >> /\ hdr = NoHeader

\* --------------------------------------------------------------------
\* C28: at most one server process of an Evaluator is alive at any time. With
\* deterministic = True a create_world that got its server closed the server
\* it began with, which has terminated, and holds a process launched since.
\* With deterministic = False a server, once launched, stays the Evaluator's
\* server through every later create_world, and no create_world kills it.
C28_ServerLifecycle ==
    /\ [](Cardinality({p \in Pids : Live(p)}) <= 1)
    /\ []((deterministic /\ epc = "setup")
            => /\ server # 0 /\ server # prev
               /\ prev # 0 => procs[prev] \in {"gone", "exited"})
    /\ []((~deterministic /\ server # 0 /\ epc \in {"idle", "setup"})
            => procs[server] \in {"running", "dead", "gone"})
    /\ [][(~deterministic /\ server # 0 /\ epc' \notin {"aclose_wait", "closed"})
            => server' = server]_eval_vars

\* the second create_world of a deterministic Evaluator returned: the first
\* server has terminated and the second process is the server
C28_SecondWorld ==
    /\ deterministic /\ nworlds = 2
    /\ epc = "idle" /\ elast = "ok"
    /\ prev = 1 /\ procs[1] = "exited"
    /\ server = 2 /\ procs[2] = "running"

\* --------------------------------------------------------------------
\* the reader of connection k reads, in this step, the answer to request w
ReadsAnswerTo(k, w) ==
    /\ rtask[k].st = "running" /\ rtask'[k].st # "ended"
    /\ w \in srv[k] /\ w \notin srv'[k]

\* C29: the response value (type 0) the server sends first for a login does
\* not resolve the login: its future and the reader are as before, and a
\* login is resolved only by an auth response, with the login's id (result)
\* or with id -1 (RCONAuthFailure). The response value with the id of a
\* pending command resolves that command in the step in which it is read.
C29_AuthPreResponseSkipped ==
    /\ [](fut[AuthSlot].st = "result"
            => /\ fut[AuthSlot].pkt.type = SERVERDATA_AUTH_RESPONSE
               /\ fut[AuthSlot].pkt.pkt_id = rid[AuthSlot])
    /\ [](fut[AuthSlot].st = "RCONAuthFailure"
            => /\ fut[AuthSlot].pkt.type = SERVERDATA_AUTH_RESPONSE
               /\ fut[AuthSlot].pkt.pkt_id = AUTH_FAILURE_ID)
    /\ [][\A k \in Conns : \A w \in srv[k] :
            ReadsAnswerTo(k, w) =>
              IF w.type = SERVERDATA_AUTH
                THEN w.stage = 0 => (fut' = fut /\ rtask' = rtask)
                ELSE \A s \in Senders :
                        (pc[s] = "await" /\ rmap[s] = rtask[k].map /\ rid[s] = w.pkt_id
                            /\ rid[s] \in DOMAIN maps[rmap[s]]
                            /\ maps[rmap[s]][rid[s]] = _ExpectedResponse(s, SERVERDATA_EXECCOMMAND)
                            /\ fut[s].st = "pending")
                        => fut'[s] = FutResult(_Packet(w.pkt_id, SERVERDATA_RESPONSE_VALUE, w.body))
         ]_vars

\* the login's response value was read and the login is still pending, while a
\* command sent on the same connection has its response value
C29_LoginPendingCommandAnswered ==
    /\ pc[AuthSlot] = "await" /\ fut[AuthSlot].st = "pending"
    /\ \E w \in srv[writer] : w.type = SERVERDATA_AUTH /\ w.stage = 1
    /\ fut[1].st = "result" /\ fut[1].pkt.type = SERVERDATA_RESPONSE_VALUE
    /\ fut[1].pkt.pkt_id = rid[1]

\* --------------------------------------------------------------------
\* the step is one call of _get_next_id that returns i: a request goes to
\* wait under the id i, or a call that raised is reported with the id i
ReturnsId(i) ==
    \/ \E s \in Slots : pc[s] # "await" /\ pc'[s] = "await" /\ rid'[s] = i
    \/ last' # NoCall /\ last'.kind # "result" /\ last'.rid = i

\* C30: _next_id and every id handed out are in 0 .. 2^31 - 1, so none is the
\* auth-failure id -1; a call of _get_next_id returns _next_id and leaves the
\* counter one higher, or at 0 after 2^31 - 1; a block of 2^31 - 2 calls
\* leaves it where that many single calls would; apart from that the counter
\* only changes when aclose sets it back to 0.
C30_IdCounter ==
    /\ [](/\ next_id \in 0 .. MAX_32_BIT_SIGNED_INT
          /\ next_id # AUTH_FAILURE_ID
          /\ \A s \in Slots : pc[s] = "await" => rid[s] \in 0 .. MAX_32_BIT_SIGNED_INT)
    /\ [][IF nbursts' # nbursts
            THEN next_id' = IF next_id >= 2 THEN next_id - 2
                            ELSE next_id + (MAX_32_BIT_SIGNED_INT - 1)
            ELSE IF nsends' # nsends
                      \/ (pc[AuthSlot] # "await" /\ pc'[AuthSlot] = "await")
              THEN /\ ReturnsId(next_id)
                   /\ next_id' = IF next_id = MAX_32_BIT_SIGNED_INT THEN 0
                                 ELSE next_id + 1
              ELSE next_id' = next_id \/ next_id' = 0
         ]_vars

\* two requests wait on one connection, the first under 2^31 - 1 and the one
\* sent after it under 0
C30_Wrapped ==
    /\ next_id = 1
    /\ \E s, t \in Senders :
          /\ pc[s] = "await" /\ pc[t] = "await" /\ rmap[s] = rmap[t]
          /\ rid[s] = MAX_32_BIT_SIGNED_INT /\ rid[t] = 0

\* --------------------------------------------------------------------
\* _open_rcon ends in this step by raising e: the except clause of
\* _try_create_server has the exception in hand while it waits for the child,
\* or has passed it on already
OpenRconRaises(e) ==
    /\ lpc = "connect" /\ lpc' \notin {"connect", "tick"}
    /\ IF lpc' = "wait" THEN perr' = e ELSE tried'[attempt] = Reraised(e)

\* C31: in the loop of _open_rcon last_exception is the error of the latest
\* connect, ConnectionRefusedError or TimeoutError, and none only before the
\* first connect; a connect is followed by another only after one of these
\* two errors; the client is returned only by the step in which a connect
\* succeeded, and is then authenticated; the call raises either
\* last_exception, after a failed connect, or RCONAuthFailure in the very step
\* in which connect raised it.
C31_OpenRconRetry ==
    /\ [](lpc = "connect" =>
            /\ last_exception \in {"none", "ConnectionRefusedError", "TimeoutError"}
            /\ (last_exception = "none") = (tries = 0)
            /\ client[attempt] # "authed")
    /\ [][lpc = "connect" =>
            /\ lpc' = "tick" =>
                  /\ tries' = tries + 1
                  /\ client'[attempt] = "authed"
                  /\ last_exception' = "none"
            /\ (lpc' = "connect" /\ tries' # tries) =>
                  /\ tries' = tries + 1
                  /\ last_exception' \in {"ConnectionRefusedError", "TimeoutError"}
            /\ lpc' \notin {"connect", "tick"} =>
                  IF tries' # tries
                    THEN OpenRconRaises("RCONAuthFailure")
                    ELSE /\ last_exception # "none"
                         /\ OpenRconRaises(last_exception)
         ]_server_vars

\* _open_rcon raised the TimeoutError of its second connect, after a first
\* connect that was refused
C31_RaisedAfterTwoTries ==
    /\ tries = 2 /\ last_exception = "TimeoutError"
    /\ lpc = "wait" /\ perr = "TimeoutError"

\* --------------------------------------------------------------------
\* C32: the step of create_world that has seen a None entry leaves
\* delete_tmpdir false on the server's handle, with the server still the
\* Evaluator's; the create_world then ends with an exception; the working
\* directory of a handle whose delete_tmpdir is false exists from then on,
\* and the close that gives such a handle up leaves the process terminated
\* and the directory on disk.
C32_EvidencePreserved ==
    /\ [](epc = "debug_save" =>
            server # 0 /\ ~delete_of[server] /\ server \in tmpdirs)
    /\ [][(epc = "setup" /\ epc' = "debug_save") =>
            server' = server /\ ~delete_of'[server]]_eval_vars
    /\ [][epc = "debug_save" /\ epc' # "debug_save" =>
            epc' = "idle" /\ elast' # "ok" /\ server' = server]_eval_vars
    /\ [](\A p \in Pids : ~delete_of[p] => p \in tmpdirs)
    /\ [][(server # 0 /\ ~delete_of[server] /\ server' = 0) =>
            /\ procs'[server] \in {"exited", "gone"}
            /\ server \in tmpdirs']_eval_vars

\* create_world failed on a None entry and the Evaluator was then closed: the
\* process of its server has terminated and the directory is still there
C32_ClosedAndKept ==
    /\ nworlds = 1 /\ epc = "closed" /\ elast = "ok"
    /\ server = 0 /\ procs[1] = "exited"
    /\ ~delete_of[1] /\ 1 \in tmpdirs

\* --------------------------------------------------------------------
\* C33: decode_entity(num) returns the entity e exactly when encode_entity(e)
\* is num for an encodable e, and returns None for every other integer, 0 and
\* the negative ones included.
C33_DecodeInvertsEncode ==
    num >= 0 - MaxNum =>
      IF \E n \in Names, d \in Directions :
            encode_entity(EntityNameAndDirection(n, d)) =
               Coded("value", EntityNameAndDirection(n, d), num)
        THEN /\ decoded.kind = "value"
             /\ encode_entity(decoded.e) = Coded("value", decoded.e, num)
        ELSE decoded.kind = "None"

\* decode_entity(0) returned an entity, the steel chest facing west
C33_ZeroDecoded ==
    /\ num = 0
    /\ decoded = Coded("value", EntityNameAndDirection("steel-chest", "west"), 0)

\* --------------------------------------------------------------------
\* C34: a send_command that waits for its answer comes to an end: its caller
\* gets a response or an exception, whatever happens to the reader and to the
\* connection in the meantime.
C34_SendsEnd ==
    \A s \in Senders :
        (pc[s] = "await") ~> (pc[s] = "idle" /\ last.slot = s /\ last.kind # "none")

\* a send_command whose connection's reader had terminated ended with the
\* TimeoutError of its own deadline
C34_TimedOutWithoutReader ==
    /\ pc[1] = "idle" /\ last.slot = 1 /\ last.kind = "TimeoutError"
    /\ writer # 0 /\ rtask[writer].st # "running"

\* --------------------------------------------------------------------
\* C35: the client's stream is read by a task that holds the client's present
\* dict, and no two readers hold the same dict; a request that stops waiting
\* removes the key of its id from the dict it registered in and leaves every
\* other dict as it is; a future is resolved only in a step in which a reader
\* holding the dict the request registered in has read a packet.
C35_MapsIsolated ==
    /\ [](writer # 0 => rtask[writer].map = cur)
    /\ [](\A k, j \in Conns :
            (k # j /\ rtask[k].st # "none" /\ rtask[j].st # "none")
               => rtask[k].map # rtask[j].map)
    /\ [][\A s \in Slots :
            (pc[s] = "await" /\ pc'[s] = "idle") =>
               \A g \in Gens :
                  maps'[g] = IF g = rmap[s] THEN DictDel(maps[g], rid[s]) ELSE maps[g]
         ]_vars
    /\ [][\A s \in Slots :
            (pc[s] = "await" /\ fut[s].st = "pending"
                /\ fut'[s].st \notin {"pending", "cancelled"}) =>
               \E k \in Conns :
                  /\ rtask[k].st = "running" /\ rtask[k].map = rmap[s]
                  /\ srv'[k] # srv[k]
         ]_vars

\* a request of the closed connection has timed out and removed its key, and
\* a request of the next connection, registered under the same id in the
\* next dict, is still registered and waiting
C35_SameIdOtherMap ==
    /\ last.kind = "TimeoutError" /\ last.slot \in Senders
    /\ \E t \in Slots :
          /\ pc[t] = "await" /\ fut[t].st = "pending"
          /\ rid[t] = last.rid /\ rmap[t] > last.map
          /\ rid[t] \in DOMAIN maps[rmap[t]]
          /\ maps[rmap[t]][rid[t]].slot = t

\* --------------------------------------------------------------------
\* C36: a step() whose call_mod raises leaves _cur_target_tick at the value it
\* had before the call, equal to _cur_tick.
C36_FailedStepKeepsTarget ==
    [][(wpc = "rpc" /\ wpc' = "idle" /\ wlast' \in {"RpcException", "TimeoutError"})
          => /\ _cur_target_tick' = _cur_target_tick - num_ticks
             /\ (_cur_tick = _cur_target_tick - num_ticks) => _cur_tick' = _cur_target_tick'
      ]_world_vars

\* --------------------------------------------------------------------
\* C37: in a create_entities the call of an entity can be begun as soon as the
\* calls of the entities before it have been begun, whether or not any of them
\* was answered; a call that ends, with a value or an exception, changes
\* nothing for the other calls of the batch, and a call's wait is cancelled
\* only by its own deadline; create_entities ends only when every call of the
\* batch has returned or raised.
C37_BatchRunsEveryCall ==
    /\ [](\A s \in Senders :
            (gpc = "gather" /\ s \in DOMAIN entities /\ mpc[s] = "created"
                /\ \A r \in DOMAIN entities : r < s => mpc[r] # "created")
            => ENABLED TaskBegins(s))
    /\ [][\A s \in Senders :
            (gpc = "gather" /\ s \in DOMAIN entities /\ mpc[s] # "done" /\ mpc'[s] = "done")
            => \A r \in DOMAIN entities \ {s} :
                  /\ mpc'[r] = mpc[r] /\ mout'[r] = mout[r]
                  /\ fut'[r] = fut[r] /\ mustCancel'[r] = mustCancel[r]
         ]_<< vars, mod_vars >>
    /\ [][\A r \in Senders :
            ((fut[r].st # "cancelled" /\ fut'[r].st = "cancelled")
                \/ (~mustCancel[r] /\ mustCancel'[r]))
            => (r \in timer /\ r \notin timer')
         ]_<< vars, mod_vars >>
    /\ [][(gpc = "gather" /\ gpc' = "done")
            => \A s \in DOMAIN entities : mpc[s] = "done" /\ mout[s].kind # "none"
         ]_<< vars, mod_vars >>

\* the first call of a batch of two raised before it sent anything, the second
\* was sent, answered and returned after that, and then create_entities raised
C37_SecondRanAfterFailure ==
    /\ gpc = "done" /\ Len(entities) = 2
    /\ mout[1].kind = "NotImplementedError"
    /\ mout[2].kind = "returned"
    /\ gout.kind = "Exception"

\* --------------------------------------------------------------------
\* C38: when a launch attempt whose protocol client had connected and logged
\* in fails, the client of that attempt is closed in the state in which the
\* failure is reported to create_server.
C38_FailedLaunchClosesClient ==
    [][\A a \in Attempts :
          (tried[a] = "none" /\ tried'[a] # "none" /\ client[a] = "authed")
          => client'[a] = "closed"
      ]_server_vars

\* --------------------------------------------------------------------
\* a whole marker line of the save of call s is in the log
OwnMarkerLogged(s) ==
    \E i \in 1..Len(log) :
        SavingFinished(log[i]) /\ EndsWithNewline(log[i]) /\ log[i].by = s

\* another save_world call on the handle is under way
Overlaps(s) == \E t \in Saves \ {s} : spc[t] \notin {"idle", "done"}

\* C39: a save_world call that returns while another call on the handle is
\* under way returns only after the marker line of its own save was logged,
\* and the copy and the unlink of a call change the destination and the
\* artifact of no other call.
C39_SavesDoNotInterfere ==
    /\ [][\A s \in Saves :
            (result[s] = "none" /\ result'[s] = "ok" /\ Overlaps(s))
            => OwnMarkerLogged(s)
         ]_save_vars
    /\ [][\A s \in Saves :
            (spc[s] \in {"copy", "unlink"} /\ spc'[s] # spc[s])
            => \A t \in Saves \ {s} : dest'[t] = dest[t] /\ artifact'[t] = artifact[t]
         ]_save_vars



====
